---- MODULE Spec2Model ----
(***************************************************************************)
(* The sequencing / reservation engine of file_manager.py: the folder      *)
(* list, the reserved set, the persisted state, the directory watcher and  *)
(* the handlers that rename, clear, delete and refresh.                    *)
(*                                                                         *)
(* A folder name is a sequence of one-character strings, so that the       *)
(* regular expression ^\d+_? , the "{index:02d}_" format and the " (n)"    *)
(* suffix are computed character by character.                             *)
(***************************************************************************)
EXTENDS Integers, Sequences, FiniteSets, TLC

VARIABLES
    platform,          \* "posix" or "nt": what os.path.normcase does
    disk,              \* directory path -> set of sub-folder names on disk
    path_edit,         \* text of the path field
    current_path,      \* _current_path
    reserved,          \* _reserved
    items,             \* list_widget: sequence of [text, res]
    last_folder_list,  \* _last_folder_list
    watched_path,      \* _watched_path
    signals,           \* directoryChanged signals queued for the event loop
    timers,            \* paths of pending QTimer.singleShot(0, refresh) calls
    sort_paused,       \* sort_paused
    state,             \* _state: [last_path, reserved, notes, font_base,
                       \* win_width, win_height]
    file,              \* last_state.json: whether it exists, and its content
                       \* as a JSON value
    notes,             \* _notes
    notes_list,        \* notes_list: the rows, each the position in _notes of
                       \* the note it shows
    item_data,         \* what item.data(NOTE_ROLE) gives: "object", the dict
                       \* that setData was given, or "copy", an equal dict
                       \* made by the conversion through QVariant
    phase,             \* "off": not running; "up": __init__ has completed;
                       \* "aborted": __init__ was left by an exception
    faulty,            \* <<path, name>> of the folders whose rename or removal
                       \* raises OSError (held by another process)
    fault_kind,        \* "busy": an error _is_folder_in_use_error recognises;
                       \* "other": any other OSError
    broken,            \* what fails in the environment: "none"; "list": every
                       \* os.scandir; "snap": the os.scandir of a handler but not
                       \* that of its _refresh_list, and folders are empty;
                       \* "write": writing the state file
    last,              \* history: what the last handler did
    dirty,             \* history: the open directory was changed from outside
                       \* since _refresh_list last ran
    steps              \* operations of the user and of other processes left

vars == <<platform, disk, path_edit, current_path, reserved, items,
          last_folder_list, watched_path, signals, timers, sort_paused,
          state, file, notes, notes_list, item_data, phase, faulty, fault_kind,
          broken, last, dirty, steps>>

-----------------------------------------------------------------------------
(* Bounds of the model *)

\* sub-folders of the directory in SeqSpec
MaxDir == 3
\* operations of the user in SeqSpec
MaxSteps == 2
\* operations of the user and of other processes in Spec (the deliveries of
\* the event loop are not counted)
MaxAppSteps == 2
\* folders held by another process in SeqSpec
MaxBusy == 1
\* folders marked reserved in SeqSpec
MaxMarks == 1

-----------------------------------------------------------------------------
(* Characters and names *)

DigitChars == <<"0", "1", "2", "3", "4", "5", "6", "7", "8", "9">>

IsDigit(c) == \E i \in 1..10 : DigitChars[i] = c

\* code point of a character, for sorted()
Code(c) ==
    CASE c = " " -> 32 [] c = "(" -> 40 [] c = ")" -> 41
      [] c = "0" -> 48 [] c = "1" -> 49 [] c = "2" -> 50 [] c = "3" -> 51
      [] c = "4" -> 52 [] c = "5" -> 53 [] c = "6" -> 54 [] c = "7" -> 55
      [] c = "8" -> 56 [] c = "9" -> 57
      [] c = "A" -> 65 [] c = "B" -> 66 [] c = "_" -> 95
      [] c = "a" -> 97 [] c = "b" -> 98
      [] OTHER -> 127

Lower(c) == CASE c = "A" -> "a" [] c = "B" -> "b" [] OTHER -> c

\* os.path.normcase: lower-cases on Windows, the identity on POSIX
normcase(name) ==
    IF platform = "nt" THEN [i \in DOMAIN name |-> Lower(name[i])] ELSE name

RECURSIVE LeadDigits(_)
LeadDigits(name) ==
    IF name # <<>> /\ IsDigit(Head(name)) THEN 1 + LeadDigits(Tail(name)) ELSE 0

\* re.sub(r"^\d+_?", "", name)
\* variant: the pattern ^\d+ without the optional underscore
StripPrefix_DigitsOnly(name) ==
    SubSeq(name, LeadDigits(name) + 1, Len(name))

StripPrefix(name) ==
    LET k == LeadDigits(name)
        rest == SubSeq(name, k + 1, Len(name))
    IN  IF k = 0 THEN name
        ELSE IF rest # <<>> /\ Head(rest) = "_" THEN Tail(rest) ELSE rest

RECURSIVE Dec(_)
Dec(n) == IF n < 10 THEN <<DigitChars[n + 1]>>
          ELSE Dec(n \div 10) \o <<DigitChars[(n % 10) + 1]>>

\* f"{index:02d}"
\* variant: {index} without the 02d padding
Fmt02_NoPad(n) == Dec(n)

Fmt02(n) == IF n < 10 THEN <<"0">> \o Dec(n) ELSE Dec(n)

\* f"{index:02d}_{base_name}"
Candidate(index, base_name) == Fmt02(index) \o <<"_">> \o base_name

\* f"{index:02d}_{base_name} ({counter})"
Suffixed(index, base_name, counter) ==
    Candidate(index, base_name) \o <<" ", "(">> \o Dec(counter) \o <<")">>

RECURSIVE NameLess(_, _)
NameLess(a, b) ==
    IF a = <<>> THEN b # <<>>
    ELSE IF b = <<>> THEN FALSE
    ELSE IF Head(a) = Head(b) THEN NameLess(Tail(a), Tail(b))
    ELSE Code(Head(a)) < Code(Head(b))

\* sorted(names)
RECURSIVE Sorted(_)
Sorted(S) ==
    IF S = {} THEN <<>>
    ELSE LET m == CHOOSE x \in S : \A y \in S \ {x} : NameLess(x, y)
         IN  <<m>> \o Sorted(S \ {m})

Range(f) == {f[i] : i \in DOMAIN f}

-----------------------------------------------------------------------------
(* The file system *)

Paths == {"P", "Q"}
NoPath == ""

\* os.path.isdir(path)
IsDir(p) == p \in Paths

\* the sub-folders of a directory; the empty path names no directory
Dir(s, p) == IF p \in Paths THEN s.disk[p] ELSE {}

\* os.path.exists(os.path.join(base, name))
Exists(s, base, name) == \E n \in Dir(s, base) : normcase(n) = normcase(name)

\* the directory entry a name resolves to
Resolve(s, base, name) == CHOOSE n \in Dir(s, base) : normcase(n) = normcase(name)

\* how os.rename(base/old, base/new) ends: "ok", "replace" (POSIX rename onto
\* an empty directory), or the OSError it raises ("busy" for the errors
\* _is_folder_in_use_error recognises, "other" for the rest)
RenameOutcome(s, base, old, new, env) ==
    IF ~Exists(s, base, old) THEN "other"
    ELSE IF old \in env.busy THEN env.kind
    ELSE IF Exists(s, base, new) /\ normcase(new) # normcase(old)
         THEN IF platform = "posix" /\ env.clobber THEN "replace" ELSE "other"
    ELSE "ok"

\* the effect of a successful os.rename, and the watcher's signal for it
DoRename(s, base, old, new) ==
    [s EXCEPT !.disk[base] = (@ \ {Resolve(s, base, old)}) \cup {new},
              !.signals = IF s.watched_path = base THEN @ \cup {base} ELSE @]

\* the effect of a successful shutil.rmtree
DoRemove(s, base, name) ==
    [s EXCEPT !.disk[base] = @ \ {Resolve(s, base, name)},
              !.signals = IF s.watched_path = base THEN @ \cup {base} ELSE @]

-----------------------------------------------------------------------------
(* JSON values, and what Python makes of them *)

\* font limits of the application
DEFAULT_FONT_BASE == 30
MIN_FONT_BASE == 20
MAX_FONT_BASE == 48

\* a JSON value is a record tagged by its type.  A string is "str" when the
\* model computes on its characters (names, note contents, timestamps) and
\* "word" when it is only compared (paths, categories); "inf" is the float
\* that json.load makes of Infinity or 1e999; "bad" is text that is not JSON
\* and "absent" stands for a key an object does not have
Absent == [t |-> "absent"]
JNull == [t |-> "null"]
JInf == [t |-> "inf"]
JBad == [t |-> "bad"]
JBool(b) == [t |-> "bool", b |-> b]
JInt(n) == [t |-> "int", n |-> n]
JStr(cs) == [t |-> "str", s |-> cs]
JWord(w) == [t |-> "word", w |-> w]
JList(seq) == [t |-> "list", v |-> seq]
\* f: a function from the keys to the values
Obj(f) == [t |-> "obj", keys |-> DOMAIN f, get |-> f]

\* dict.get(key, default)
Get(o, key, default) == IF key \in o.keys THEN o.get[key] ELSE default

\* str.strip()
RECURSIVE LStrip(_)
LStrip(cs) == IF cs # <<>> /\ Head(cs) = " " THEN LStrip(Tail(cs)) ELSE cs

RECURSIVE RStrip(_)
RStrip(cs) ==
    IF cs # <<>> /\ cs[Len(cs)] = " " THEN RStrip(SubSeq(cs, 1, Len(cs) - 1)) ELSE cs

Strip(cs) == RStrip(LStrip(cs))

\* str(value); the text of a list or of a dict is some text that is not empty
PyStr(v) ==
    CASE v.t = "str" -> v.s
      [] v.t = "int" -> Dec(v.n)
      [] v.t = "null" -> <<"N", "o", "n", "e">>
      [] v.t = "bool" -> IF v.b THEN <<"T", "r", "u", "e">>
                         ELSE <<"F", "a", "l", "s", "e">>
      [] v.t = "inf" -> <<"i", "n", "f">>
      [] OTHER -> <<"?">>

\* bool(value)
PyBool(v) ==
    CASE v.t = "bool" -> v.b
      [] v.t = "int" -> v.n # 0
      [] v.t = "str" -> v.s # <<>>
      [] v.t = "word" -> v.w # ""
      [] v.t = "list" -> v.v # <<>>
      [] v.t = "obj" -> v.keys # {}
      [] v.t = "inf" -> TRUE
      [] OTHER -> FALSE

\* value or default
PyOr(v, default) == IF PyBool(v) THEN v ELSE default

AllDigits(cs) == cs # <<>> /\ \A i \in DOMAIN cs : IsDigit(cs[i])

DigitValue(c) == (CHOOSE i \in 1..10 : DigitChars[i] = c) - 1

RECURSIVE Val(_)
Val(cs) == IF cs = <<>> THEN 0
           ELSE 10 * Val(SubSeq(cs, 1, Len(cs) - 1)) + DigitValue(cs[Len(cs)])

\* int(value): the integer, or the exception it raises
PyInt(v) ==
    CASE v.t = "int" -> [raised |-> "none", n |-> v.n]
      [] v.t = "bool" -> [raised |-> "none", n |-> IF v.b THEN 1 ELSE 0]
      [] v.t = "str" -> IF AllDigits(Strip(v.s))
                        THEN [raised |-> "none", n |-> Val(Strip(v.s))]
                        ELSE [raised |-> "ValueError", n |-> 0]
      [] v.t = "word" -> [raised |-> "ValueError", n |-> 0]
      [] v.t = "inf" -> [raised |-> "OverflowError", n |-> 0]
      [] OTHER -> [raised |-> "TypeError", n |-> 0]

\* datetime.now().strftime("%Y-%m-%d %H:%M") of the clock reading now: fields
\* of fixed width, so that later readings give greater texts
Strftime(now) == IF now < 10 THEN <<"0">> \o Dec(now) ELSE Dec(now)

\* category if category in {"idea", "todo"} else "idea", of str(value)
NoteCategory(v) == IF v.t = "word" /\ v.w \in {"idea", "todo"} THEN v.w ELSE "idea"

\* variant: only records are taken, plain strings are left out
NormalizedNote_RecordsOnly(item, now) ==
    IF item.t = "obj"
    THEN LET content == Strip(PyStr(Get(item, "content", JStr(<<>>))))
             timestamp == Strip(PyStr(Get(item, "timestamp", JStr(<<>>))))
         IN  IF content = <<>> THEN <<>>
             ELSE << [content |-> content,
                      timestamp |-> IF timestamp = <<>> THEN Strftime(now)
                                    ELSE timestamp,
                      category |-> NoteCategory(Get(item, "category", JWord("idea"))),
                      completed |-> PyBool(Get(item, "completed", JBool(FALSE)))] >>
    ELSE <<>>

\* what _load_last_state appends to normalized_notes for one item of "notes"
NormalizedNote(item, now) ==
    IF item.t = "obj"
    THEN LET content == Strip(PyStr(Get(item, "content", JStr(<<>>))))
             timestamp == Strip(PyStr(Get(item, "timestamp", JStr(<<>>))))
         IN  IF content = <<>> THEN <<>>
             ELSE << [content |-> content,
                      timestamp |-> IF timestamp = <<>> THEN Strftime(now)
                                    ELSE timestamp,
                      category |-> NoteCategory(Get(item, "category", JWord("idea"))),
                      completed |-> PyBool(Get(item, "completed", JBool(FALSE)))] >>
    ELSE IF item.t = "str"
    THEN IF Strip(item.s) = <<>> THEN <<>>
         ELSE << [content |-> Strip(item.s), timestamp |-> Strftime(now),
                  category |-> "idea", completed |-> FALSE] >>
    ELSE <<>>

RECURSIVE NormalizedNotes(_, _)
NormalizedNotes(raw_notes, now) ==
    IF raw_notes = <<>> THEN <<>>
    ELSE NormalizedNote(Head(raw_notes), now) \o NormalizedNotes(Tail(raw_notes), now)

\* the sanitized "reserved" dict: the entries whose value is a list, with the
\* items that are strings
SanitizedReserved(v) ==
    IF v.t # "obj" THEN [keys |-> {}, map |-> [p \in Paths |-> {}]]
    ELSE LET good == {p \in v.keys \cap Paths : v.get[p].t = "list"}
         IN  [keys |-> good,
              map |-> [p \in Paths |->
                         IF p \in good
                         THEN {v.get[p].v[i].s :
                                 i \in {k \in DOMAIN v.get[p].v : v.get[p].v[k].t = "str"}}
                         ELSE {}]]

\* the dict _load_last_state returns when the file gives nothing
DefaultState ==
    [last_path |-> NoPath,
     reserved |-> [keys |-> {}, map |-> [p \in Paths |-> {}]],
     notes |-> <<>>, font_base |-> DEFAULT_FONT_BASE,
     win_width |-> Absent, win_height |-> Absent]

\* max(MIN_FONT_BASE, min(MAX_FONT_BASE, font_base))
ClampFont(n) ==
    IF n < MIN_FONT_BASE THEN MIN_FONT_BASE
    ELSE IF n > MAX_FONT_BASE THEN MAX_FONT_BASE ELSE n

\* the font_base of the loaded dict: TypeError and ValueError give the default
LoadedFont(v) ==
    IF PyInt(v).raised \in {"TypeError", "ValueError"}
    THEN [raised |-> "none", n |-> DEFAULT_FONT_BASE]
    ELSE [raised |-> PyInt(v).raised, n |-> ClampFont(PyInt(v).n)]

\* _load_last_state on a file f = [exists, data]: the dict it returns, or the
\* exception that leaves it
LoadLastState(f, now) ==
    IF ~f.exists \/ f.data.t # "obj" THEN [raised |-> "none", state |-> DefaultState]
    ELSE LET data == f.data
             font == LoadedFont(Get(data, "font_base", JInt(DEFAULT_FONT_BASE)))
             raw_notes == Get(data, "notes", JList(<<>>))
         IN  [raised |-> font.raised,
              state |->
                 [last_path |-> IF Get(data, "last_path", Absent).t = "word"
                                THEN data.get["last_path"].w ELSE NoPath,
                  reserved |-> SanitizedReserved(Get(data, "reserved", Obj(<<>>))),
                  notes |-> IF raw_notes.t = "list"
                            THEN NormalizedNotes(raw_notes.v, now) ELSE <<>>,
                  font_base |-> font.n,
                  win_width |-> Get(data, "win_width", Absent),
                  win_height |-> Get(data, "win_height", Absent)]]

\* json.dump of one note of _state["notes"]: the keys the dict has
DumpNote(n) ==
    Obj([k \in DOMAIN n |->
           CASE k = "content" -> JStr(n.content)
             [] k = "timestamp" -> JStr(n.timestamp)
             [] k = "category" -> JWord(n.category)
             [] k = "completed" -> JBool(n.completed)
             [] OTHER -> JBool(n.pinned)])

\* json.dump(self._state): the window size is there once it was saved or loaded
DumpState(st) ==
    Obj([k \in {"last_path", "reserved", "notes", "font_base"}
               \cup (IF st.win_width = Absent THEN {} ELSE {"win_width"})
               \cup (IF st.win_height = Absent THEN {} ELSE {"win_height"}) |->
           CASE k = "last_path" -> JWord(st.last_path)
             [] k = "reserved" ->
                  Obj([p \in st.reserved.keys |->
                         JList([i \in 1..Cardinality(st.reserved.map[p]) |->
                                   JStr(Sorted(st.reserved.map[p])[i])])])
             [] k = "notes" -> JList([i \in DOMAIN st.notes |-> DumpNote(st.notes[i])])
             [] k = "font_base" -> JInt(st.font_base)
             [] k = "win_width" -> st.win_width
             [] OTHER -> st.win_height])

-----------------------------------------------------------------------------
(* State I/O *)

\* reserved_dict.get(base, [])
StoredReserved(st, base) ==
    IF base \in st.reserved.keys THEN st.reserved.map[base] ELSE {}

\* the names the file lists as reserved for a directory
FileReserved(f, base) ==
    StoredReserved(LoadLastState(f, 1).state, base)

\* _write_state: an OSError is printed and swallowed
\* variant: after an OSError _state is read back from the file
WriteState_Rollback(s, env) ==
    IF env.wok THEN [s EXCEPT !.file = [exists |-> TRUE, data |-> DumpState(s.state)]]
    ELSE [s EXCEPT !.state = LoadLastState(s.file, 1).state]

WriteState(s, env) ==
    IF env.wok THEN [s EXCEPT !.file = [exists |-> TRUE, data |-> DumpState(s.state)]] ELSE s

\* _save_last_state
SaveLastState(s, path, env) ==
    WriteState([s EXCEPT !.state.last_path = path], env)

\* _save_reserved_state
\* variant: an empty set is stored as an empty entry
SaveReservedState_KeepEmpty(s, env) ==
    IF s.current_path = NoPath THEN s
    ELSE WriteState([s EXCEPT !.state.reserved =
                        [keys |-> @.keys \cup {s.current_path},
                         map |-> [@.map EXCEPT ![s.current_path] = s.reserved]]], env)

SaveReservedState(s, env) ==
    IF s.current_path = NoPath THEN s
    ELSE LET cp == s.current_path
             rd == IF s.reserved # {}
                   THEN [keys |-> s.state.reserved.keys \cup {cp},
                         map  |-> [s.state.reserved.map EXCEPT ![cp] = s.reserved]]
                   ELSE [keys |-> s.state.reserved.keys \ {cp},
                         map  |-> [s.state.reserved.map EXCEPT ![cp] = {}]]
         IN  WriteState([s EXCEPT !.state.reserved = rd], env)

-----------------------------------------------------------------------------
(* Folder list *)

\* _update_directory_watch
UpdateDirectoryWatch(s, path) ==
    IF path = s.watched_path THEN s
    ELSE [s EXCEPT !.watched_path = IF IsDir(path) THEN path ELSE NoPath]

\* what os.scandir(base) lists in _refresh_list, sorted; [] on OSError
ScanFolders(s, base, env) ==
    IF env.scanOk /\ IsDir(base) THEN Sorted(Dir(s, base)) ELSE <<>>

\* variant: the early return compares the path only
RefreshShort_PathOnly(s, base, env) == base = s.current_path

\* the early return of _refresh_list
RefreshShort(s, base, env) ==
    base = s.current_path /\ ScanFolders(s, base, env) = s.last_folder_list

\* variant: the stored set is taken as it is
ActualReserved_NoPrune(s, base, env) == StoredReserved(s.state, base)

\* stored_reserved & set(folders)
ActualReserved(s, base, env) ==
    StoredReserved(s.state, base) \cap Range(ScanFolders(s, base, env))

\* whether _refresh_list calls _save_reserved_state
RefreshSaves(s, base, env) ==
    ~RefreshShort(s, base, env)
    /\ ActualReserved(s, base, env) # StoredReserved(s.state, base)

\* _refresh_list(base_path)
\* variant: without the early return
RefreshList_NoShortCircuit(s, base, env) ==
    LET folders == ScanFolders(s, base, env)
        actual == ActualReserved(s, base, env)
        s1 == UpdateDirectoryWatch(s, base)
        s2 == [s1 EXCEPT !.current_path = base, !.reserved = actual]
        s3 == IF actual # StoredReserved(s.state, base)
              THEN SaveReservedState(s2, env) ELSE s2
    IN  [s3 EXCEPT
           !.items = [i \in 1..Len(folders) |->
                         [text |-> folders[i], res |-> folders[i] \in actual]],
           !.last_folder_list = folders]

RefreshList(s, base, env) ==
    IF RefreshShort(s, base, env) THEN s
    ELSE LET folders == ScanFolders(s, base, env)
             actual == ActualReserved(s, base, env)
             s1 == UpdateDirectoryWatch(s, base)
             s2 == [s1 EXCEPT !.current_path = base, !.reserved = actual]
             s3 == IF RefreshSaves(s, base, env) THEN SaveReservedState(s2, env) ELSE s2
         IN  [s3 EXCEPT
                !.items = [i \in 1..Len(folders) |->
                              [text |-> folders[i], res |-> folders[i] \in actual]],
                !.last_folder_list = folders]

-----------------------------------------------------------------------------
(* Sequencing: _confirm_sort *)

\* _is_item_reserved: the UserRole data, which _apply_reserved_style always
\* sets to a bool
IsItemReserved(item) == item.res

\* re.sub(r"^\d+_?", "", folder_name) or folder_name
BaseName(folder_name) ==
    IF StripPrefix(folder_name) = <<>> THEN folder_name ELSE StripPrefix(folder_name)

\* the condition that ends the probing loop of _confirm_sort
\* variant: the candidate is compared with the names of the batch only
NameIsFree_BatchOnly(new_name, current_norm, used_names, existing_norm) ==
    new_name \notin used_names

NameIsFree(new_name, current_norm, used_names, existing_norm) ==
    /\ new_name \notin used_names
    /\ (normcase(new_name) = current_norm \/ normcase(new_name) \notin existing_norm)

\* the while True loop: the first free name among the candidate and its
\* " (1)", " (2)", ... variants
RECURSIVE Probe(_, _, _, _, _, _, _)
Probe(index, base_name, current_norm, used_names, existing_norm, new_name, counter) ==
    IF NameIsFree(new_name, current_norm, used_names, existing_norm) THEN new_name
    ELSE Probe(index, base_name, current_norm, used_names, existing_norm,
               Suffixed(index, base_name, counter), counter + 1)

\* the name planned for one non-reserved item
PlannedName(index, folder_name, used_names, existing_norm) ==
    Probe(index, BaseName(folder_name), normcase(folder_name), used_names,
          existing_norm, Candidate(index, BaseName(folder_name)), 1)

\* the index after an item: it advances on non-reserved items only
\* variant: index += 1 ahead of the reserved check
NextIndex_Every(index, item) == index + 1

NextIndex(index, item) == IF IsItemReserved(item) THEN index ELSE index + 1

\* the planning loop over the items from position i on
RECURSIVE PlanFrom(_, _, _, _, _, _)
PlanFrom(its, i, index, used_names, existing_norm, rename_plan) ==
    IF i > Len(its) THEN rename_plan
    ELSE IF IsItemReserved(its[i])
         THEN PlanFrom(its, i + 1, NextIndex(index, its[i]), used_names,
                       existing_norm, rename_plan)
    ELSE LET folder_name == its[i].text
             new_name == PlannedName(index, folder_name, used_names, existing_norm)
         IN  PlanFrom(its, i + 1, NextIndex(index, its[i]),
                      used_names \cup {new_name},
                      existing_norm \cup {normcase(new_name)},
                      Append(rename_plan, <<folder_name, new_name>>))

\* existing_norm as _confirm_sort snapshots it; empty on OSError
SortSnapshot(s, base, env) ==
    IF env.snapOk THEN {normcase(n) : n \in Dir(s, base)} ELSE {}

\* rename_plan of _confirm_sort
RenamePlan(s, base, env) ==
    PlanFrom(s.items, 1, 1, {}, SortSnapshot(s, base, env), <<>>)

\* whether the execution loop goes on to the next plan entry after an entry
\* ended with the given outcome
\* variant: the in-use branch leaves the loop
ContinuesAfter_BreakOnBusy(outcome) == outcome # "busy"

ContinuesAfter(outcome) == TRUE

\* one plan entry of the execution loop; r = [s, performed, attempted, reports]
SortStep(r, base, old_name, new_name, env) ==
    IF ~Exists(r.s, base, old_name) THEN r
    ELSE IF normcase(old_name) = normcase(new_name) THEN r
    ELSE LET out == RenameOutcome(r.s, base, old_name, new_name, env)
             r1 == [r EXCEPT !.attempted = Append(@, <<old_name, new_name>>)]
         IN  IF out \in {"ok", "replace"}
             THEN [r1 EXCEPT !.s = DoRename(r.s, base, old_name, new_name),
                             !.performed = Append(@, <<old_name, new_name>>)]
             ELSE [r1 EXCEPT !.reports = Append(@, <<out, old_name>>)]

\* the execution loop over the plan entries from position i on
RECURSIVE ExecFrom(_, _, _, _, _)
ExecFrom(r, base, plan, i, env) ==
    IF i > Len(plan) THEN r
    ELSE LET r1 == SortStep(r, base, plan[i][1], plan[i][2], env)
             failed == Len(r1.reports) > Len(r.reports)
         IN  IF failed /\ ~ContinuesAfter(r1.reports[Len(r1.reports)][1])
             THEN r1
             ELSE ExecFrom(r1, base, plan, i + 1, env)

NoLog == [stored |-> {}, plan |-> <<>>, performed |-> <<>>, attempted |-> <<>>, reports |-> <<>>,
          ran |-> FALSE, refreshed |-> FALSE, full |-> FALSE, saved |-> FALSE,
          folders |-> <<>>]

\* the log of the _refresh_list(base) call a handler ends with, made in state s
RefreshLog(log, s, base, env) ==
    [log EXCEPT !.refreshed = TRUE,
                !.full = ~RefreshShort(s, base, env),
                !.saved = RefreshSaves(s, base, env),
                !.folders = ScanFolders(s, base, env),
                !.stored = StoredReserved(s.state, base)]

\* _confirm_sort: the new state and the log of what it did
ConfirmSort(s, env) ==
    LET base == s.path_edit IN
    IF ~IsDir(base) THEN [s |-> s, log |-> NoLog]
    ELSE LET plan == RenamePlan(s, base, env)
             r == ExecFrom([s |-> s, performed |-> <<>>, attempted |-> <<>>,
                            reports |-> <<>>], base, plan, 1, env)
             log == [NoLog EXCEPT !.plan = plan, !.performed = r.performed,
                                  !.attempted = r.attempted, !.reports = r.reports,
                                  !.ran = TRUE]
         IN  [s |-> RefreshList(r.s, base, env),
              log |-> RefreshLog(log, r.s, base, env)]

-----------------------------------------------------------------------------
(* Clearing prefixes: _clear_prefix_number *)

\* whether the loop of _clear_prefix_number reaches os.rename for old_name
\* variant: no check of the reserved set
ClearAttempts_NoReserved(res, old_name, existing_norm) ==
    LET new_name == StripPrefix(old_name) IN
    /\ new_name # <<>>
    /\ new_name # old_name
    /\ ~(normcase(new_name) \in existing_norm /\ normcase(new_name) # normcase(old_name))

ClearAttempts(res, old_name, existing_norm) ==
    LET new_name == StripPrefix(old_name) IN
    /\ old_name \notin res
    /\ new_name # <<>>
    /\ new_name # old_name
    /\ ~(normcase(new_name) \in existing_norm /\ normcase(new_name) # normcase(old_name))

\* one folder of the loop; r = [s, existing_norm, changed, trace, reports]
ClearStep(r, base, old_name, env) ==
    LET new_name == StripPrefix(old_name)
        entry == [old |-> old_name, new |-> new_name, dir |-> Dir(r.s, base),
                  renamed |-> FALSE]
    IN  IF ~ClearAttempts(r.s.reserved, old_name, r.existing_norm)
        THEN [r EXCEPT !.trace = Append(@, entry)]
        ELSE LET out == RenameOutcome(r.s, base, old_name, new_name, env) IN
             IF out \in {"ok", "replace"}
             THEN [r EXCEPT
                     !.s = DoRename(r.s, base, old_name, new_name),
                     !.existing_norm = (@ \ {normcase(old_name)}) \cup {normcase(new_name)},
                     !.changed = TRUE,
                     !.trace = Append(@, [entry EXCEPT !.renamed = TRUE])]
             ELSE [r EXCEPT !.trace = Append(@, entry),
                            !.reports = Append(@, <<out, old_name>>)]

RECURSIVE ClearFrom(_, _, _, _, _)
ClearFrom(r, base, folders, i, env) ==
    IF i > Len(folders) THEN r
    ELSE ClearFrom(ClearStep(r, base, folders[i], env), base, folders, i + 1, env)

\* the renames a clear trace performed, as <<old, new>> pairs
RECURSIVE Renamed(_)
Renamed(trace) ==
    IF trace = <<>> THEN <<>>
    ELSE IF Head(trace).renamed
         THEN <<<<Head(trace).old, Head(trace).new>>>> \o Renamed(Tail(trace))
         ELSE Renamed(Tail(trace))

\* _clear_prefix_number; folders is the order in which os.scandir lists the
\* directory
ClearPrefixNumber(s, folders, env) ==
    LET base == s.path_edit IN
    IF ~IsDir(base) \/ ~env.snapOk THEN [s |-> s, log |-> NoLog, trace |-> <<>>]
    ELSE LET r == ClearFrom([s |-> s,
                             existing_norm |-> {normcase(n) : n \in Dir(s, base)},
                             changed |-> FALSE, trace |-> <<>>, reports |-> <<>>],
                            base, folders, 1, env)
             log == [NoLog EXCEPT !.performed = Renamed(r.trace),
                                  !.reports = r.reports, !.ran = TRUE]
         IN  IF r.changed
             THEN [s |-> RefreshList(r.s, base, env),
                   log |-> RefreshLog(log, r.s, base, env), trace |-> r.trace]
             ELSE [s |-> r.s, log |-> log, trace |-> r.trace]

-----------------------------------------------------------------------------
(* Reserved markers *)

\* _apply_reserved_style on the selected items
StyleSelected(its, sel, res) ==
    [i \in DOMAIN its |->
        IF its[i].text \in sel THEN [its[i] EXCEPT !.res = its[i].text \in res]
        ELSE its[i]]

\* _mark_selected_as_reserved
MarkSelectedAsReserved(s, sel, env) ==
    IF s.current_path = NoPath THEN s
    ELSE LET changed == \E n \in sel : n \notin s.reserved
             s1 == [s EXCEPT !.reserved = @ \cup sel,
                             !.items = StyleSelected(@, sel, sel)]
         IN  IF changed THEN SaveReservedState(s1, env) ELSE s1

\* _unmark_selected_reserved
UnmarkSelectedReserved(s, sel, env) ==
    IF s.current_path = NoPath \/ s.reserved = {} THEN s
    ELSE LET changed == \E n \in sel : n \in s.reserved
             s1 == [s EXCEPT !.reserved = @ \ sel,
                             !.items = StyleSelected(@, sel, {})]
         IN  IF changed THEN SaveReservedState(s1, env) ELSE s1

-----------------------------------------------------------------------------
(* Delete and manual rename *)

\* whether shutil.rmtree(base/name) succeeds
Removable(s, base, name, env) == Exists(s, base, name) /\ name \notin env.busy

RECURSIVE RemoveAll(_, _, _)
RemoveAll(s, base, names) ==
    IF names = {} THEN s
    ELSE LET n == CHOOSE x \in names : TRUE
         IN  RemoveAll(DoRemove(s, base, n), base, names \ {n})

\* _delete_selected_folders, confirmed with Yes
DeleteSelectedFolders(s, sel, env) ==
    LET base == s.path_edit IN
    IF sel = {} \/ ~IsDir(base) THEN [s |-> s, log |-> NoLog]
    ELSE LET gone == {n \in sel : Removable(s, base, n, env)}
             s1 == RemoveAll(s, base, gone)
             s2 == [s1 EXCEPT !.reserved = @ \ gone]
             s3 == IF gone \cap s.reserved # {} THEN SaveReservedState(s2, env) ELSE s2
             log == [NoLog EXCEPT !.ran = TRUE,
                        !.reports = [i \in 1..Cardinality(sel \ gone) |->
                                        LET n == Sorted(sel \ gone)[i] IN
                                        <<IF n \in env.busy THEN env.kind ELSE "other", n>>]]
         IN  [s |-> RefreshList(s3, base, env),
              log |-> RefreshLog(log, s3, base, env)]

\* the reservation moves with a renamed folder
TransferReservation(res, old_name, new_name) ==
    IF old_name \in res THEN (res \ {old_name}) \cup {new_name} ELSE res

\* os.path.exists(new_path) in _rename_selected_folder
\* variant: the check is left out
TargetExists_Never(s, base, new_name) == FALSE

TargetExists(s, base, new_name) == Exists(s, base, new_name)

\* _rename_selected_folder with the dialog accepted
RenameSelectedFolder(s, old_name, new_name, env) ==
    LET base == s.path_edit IN
    IF new_name = <<>> \/ new_name = old_name THEN [s |-> s, log |-> NoLog]
    ELSE IF TargetExists(s, base, new_name)
         THEN [s |-> s, log |-> [NoLog EXCEPT !.reports = <<<<"exists", old_name>>>>]]
    ELSE LET out == RenameOutcome(s, base, old_name, new_name, env)
             log == [NoLog EXCEPT !.attempted = <<<<old_name, new_name>>>>, !.ran = TRUE]
         IN  IF out \notin {"ok", "replace"}
             THEN [s |-> s, log |-> [log EXCEPT !.reports = <<<<out, old_name>>>>]]
             ELSE LET s1 == DoRename(s, base, old_name, new_name)
                      s2 == [s1 EXCEPT !.reserved =
                                TransferReservation(@, old_name, new_name)]
                      s3 == IF old_name \in s.reserved
                            THEN SaveReservedState(s2, env) ELSE s2
                  IN  [s |-> RefreshList(s3, base, env),
                       log |-> RefreshLog([log EXCEPT !.performed =
                                  <<<<old_name, new_name>>>>], s3, base, env)]

-----------------------------------------------------------------------------
(* Sort control, path entry and the watcher *)

\* the list after an internal move of the item at position i to position j
MoveItem(its, i, j) ==
    LET without == [k \in 1..(Len(its) - 1) |-> IF k < i THEN its[k] ELSE its[k + 1]]
    IN  [k \in 1..Len(its) |->
            IF k < j THEN without[k] ELSE IF k = j THEN its[i] ELSE without[k - 1]]

\* variant: every drop is followed by a sort
OnDrop_Always(s, i, j, env) ==
    ConfirmSort([s EXCEPT !.items = MoveItem(@, i, j)], env)

\* SortListWidget.dropEvent followed by _on_drop
OnDrop(s, i, j, env) ==
    LET s1 == [s EXCEPT !.items = MoveItem(@, i, j)] IN
    IF ~s.sort_paused THEN ConfirmSort(s1, env) ELSE [s |-> s1, log |-> NoLog]

\* _pause_sort
PauseSort(s) == [s EXCEPT !.sort_paused = TRUE]

\* _resume_sort
ResumeSort(s, env) == ConfirmSort([s EXCEPT !.sort_paused = FALSE], env)

\* _on_path_entry
OnPathEntry(s, env) ==
    LET path == s.path_edit IN
    IF IsDir(path)
    THEN [s |-> RefreshList(SaveLastState(s, path, env), path, env),
          log |-> RefreshLog(NoLog, SaveLastState(s, path, env), path, env)]
    ELSE [s |-> s, log |-> [NoLog EXCEPT !.reports = <<<<"nopath", <<>>>>>>]]

\* _select_directory with the dialog returning path
SelectDirectory(s, path, env) ==
    OnPathEntry([s EXCEPT !.path_edit = path], env)

\* _on_directory_changed
OnDirectoryChanged(s, path) ==
    IF path # s.current_path THEN [s EXCEPT !.signals = @ \ {path}]
    ELSE [s EXCEPT !.signals = @ \ {path}, !.timers = @ \cup {path}]

\* the deferred call lambda: self._refresh_list(path)
TimerFires(s, path, env) ==
    [s |-> RefreshList([s EXCEPT !.timers = @ \ {path}], path, env),
     log |-> RefreshLog(NoLog, s, path, env)]

\* FileManagerApp.__init__ from the state loaded into s.state
Construct(s, env) ==
    LET initial_path == s.state.last_path IN
    IF initial_path = NoPath THEN s
    ELSE LET s1 == [s EXCEPT !.path_edit = initial_path]
         IN  IF IsDir(initial_path) THEN RefreshList(s1, initial_path, env) ELSE s1

-----------------------------------------------------------------------------
(* Notes *)

\* sort_key of _render_notes: (1 if pinned else 0, timestamp)
\* variant: the key is the timestamp alone
KeyLess_TimestampOnly(a, b) == NameLess(a.timestamp, b.timestamp)

KeyLess(a, b) ==
    \/ ~a.pinned /\ b.pinned
    \/ a.pinned = b.pinned /\ NameLess(a.timestamp, b.timestamp)

\* list.sort(key=sort_key, reverse=True) on positions of ns: descending keys,
\* and equal keys stay in their order
RECURSIVE InsertDesc(_, _, _)
InsertDesc(ns, i, sorted) ==
    IF sorted # <<>> /\ ~KeyLess(ns[Head(sorted)], ns[i])
    THEN <<Head(sorted)>> \o InsertDesc(ns, i, Tail(sorted))
    ELSE <<i>> \o sorted

RECURSIVE SortDesc(_, _, _)
SortDesc(ns, positions, sorted) ==
    IF positions = <<>> THEN sorted
    ELSE SortDesc(ns, Tail(positions), InsertDesc(ns, Head(positions), sorted))

RECURSIVE Positions(_, _, _)
Positions(ns, i, completed) ==
    IF i > Len(ns) THEN <<>>
    ELSE (IF ns[i].completed = completed THEN <<i>> ELSE <<>>)
         \o Positions(ns, i + 1, completed)

\* ordered_notes of _render_notes, as positions in _notes
OrderedNotes(ns) ==
    SortDesc(ns, Positions(ns, 1, FALSE), <<>>)
    \o SortDesc(ns, Positions(ns, 1, TRUE), <<>>)

\* _render_notes
RenderNotes(s) == [s EXCEPT !.notes_list = OrderedNotes(s.notes)]

\* what _load_notes_from_state appends to _notes for one entry of _state["notes"]
LoadedNote(entry, now) ==
    LET content == Strip(entry.content)
        timestamp == Strip(entry.timestamp)
    IN  IF content = <<>> THEN <<>>
        ELSE << [content |-> content,
                 timestamp |-> IF timestamp = <<>> THEN Strftime(now) ELSE timestamp,
                 category |-> IF entry.category \in {"idea", "todo"}
                              THEN entry.category ELSE "idea",
                 completed |-> entry.completed,
                 pinned |-> IF "pinned" \in DOMAIN entry THEN entry.pinned ELSE FALSE] >>

RECURSIVE LoadedNotes(_, _)
LoadedNotes(entries, now) ==
    IF entries = <<>> THEN <<>>
    ELSE LoadedNote(Head(entries), now) \o LoadedNotes(Tail(entries), now)

\* _load_notes_from_state
LoadNotesFromState(s, now) ==
    RenderNotes([s EXCEPT !.notes = LoadedNotes(s.state.notes, now)])

\* _save_notes
SaveNotes(s, env) == WriteState([s EXCEPT !.state.notes = s.notes], env)

\* _add_note_with_text
\* variant: the note is appended to _notes
AddNoteWithText_Append(s, text, now, env) ==
    SaveNotes(RenderNotes([s EXCEPT !.notes =
        @ \o << [content |-> Strip(text), timestamp |-> Strftime(now),
                 category |-> "idea", completed |-> FALSE, pinned |-> FALSE] >>]), env)

AddNoteWithText(s, text, now, env) ==
    SaveNotes(RenderNotes([s EXCEPT !.notes =
        << [content |-> Strip(text), timestamp |-> Strftime(now),
            category |-> "idea", completed |-> FALSE, pinned |-> FALSE] >> \o @]), env)

\* _add_note: Return in the note field, or its button
AddNote(s, input, now, env) ==
    IF Strip(input) = <<>> THEN s ELSE AddNoteWithText(s, Strip(input), now, env)

\* the note a handler changes through item.data(NOTE_ROLE): the note of _notes
\* when the item gives the object, no note of _notes when it gives a copy
Through(s, row, changed) ==
    IF item_data = "object"
    THEN [s EXCEPT !.notes[s.notes_list[row]] = changed] ELSE s

\* _toggle_note_completion
ToggleNoteCompletion(s, row, env) ==
    LET note == s.notes[s.notes_list[row]]
    IN  SaveNotes(RenderNotes(
            Through(s, row, [note EXCEPT !.completed = ~note.completed])), env)

\* _set_note_category
SetNoteCategory(s, row, category, env) ==
    LET note == s.notes[s.notes_list[row]]
    IN  SaveNotes(RenderNotes(
            Through(s, row, [note EXCEPT !.category =
                                 IF category = "todo" THEN "todo" ELSE "idea"])), env)

\* _toggle_note_pin
ToggleNotePin(s, row, env) ==
    LET note == s.notes[s.notes_list[row]]
    IN  SaveNotes(RenderNotes(
            Through(s, row, [note EXCEPT !.pinned = ~note.pinned])), env)

\* list.remove(note): the first element equal to note goes
RemoveFirst(ns, note) ==
    LET k == CHOOSE i \in DOMAIN ns : ns[i] = note /\ \A j \in 1..(i - 1) : ns[j] # note
    IN  SubSeq(ns, 1, k - 1) \o SubSeq(ns, k + 1, Len(ns))

\* _handle_note_triple_click
HandleNoteTripleClick(s, row, env) ==
    SaveNotes(RenderNotes(
        [s EXCEPT !.notes = RemoveFirst(@, s.notes[s.notes_list[row]])]), env)

-----------------------------------------------------------------------------
(* Starting and closing the application *)

\* the application before __init__ opens its last path
Blank(d, st) ==
    [disk |-> d, path_edit |-> NoPath, current_path |-> NoPath, reserved |-> {},
     items |-> <<>>, last_folder_list |-> <<>>, watched_path |-> NoPath,
     signals |-> {}, timers |-> {}, sort_paused |-> TRUE,
     state |-> st, file |-> [exists |-> TRUE, data |-> DumpState(st)],
     notes |-> <<>>, notes_list |-> <<>>, phase |-> "up"]

\* the window size __init__ restores: int(value or 0) of each side
WindowSize(st) ==
    LET w == PyInt(PyOr(IF st.win_width = Absent THEN JInt(0) ELSE st.win_width, JInt(0)))
        h == PyInt(PyOr(IF st.win_height = Absent THEN JInt(0) ELSE st.win_height, JInt(0)))
    IN  [raised |-> IF w.raised # "none" THEN w.raised ELSE h.raised,
         resized |-> w.raised = "none" /\ h.raised = "none" /\ w.n > 0 /\ h.n > 0]

\* FileManagerApp(): _load_last_state, the notes, the last path, the window
\* size; an exception that nothing catches ends the start
StartApp(s, now, env) ==
    LET loaded == LoadLastState(s.file, now)
        blank == [Blank(s.disk, loaded.state) EXCEPT !.file = s.file]
    IN  IF loaded.raised # "none" THEN [blank EXCEPT !.phase = "aborted"]
        ELSE LET up == Construct(LoadNotesFromState(blank, now), env)
             IN  IF WindowSize(up.state).raised # "none"
                 THEN [up EXCEPT !.phase = "aborted"] ELSE up

\* closeEvent
CloseEvent(s, width, height, env) ==
    [WriteState([s EXCEPT !.state.win_width = JInt(width),
                          !.state.win_height = JInt(height)], env)
     EXCEPT !.phase = "off"]

-----------------------------------------------------------------------------
(* The state of the application as one record, and the history *)

Cur == [disk |-> disk, path_edit |-> path_edit, current_path |-> current_path,
        reserved |-> reserved, items |-> items,
        last_folder_list |-> last_folder_list, watched_path |-> watched_path,
        signals |-> signals, timers |-> timers, sort_paused |-> sort_paused,
        state |-> state, file |-> file, notes |-> notes,
        notes_list |-> notes_list, phase |-> phase]

Becomes(s) ==
    /\ disk' = s.disk
    /\ path_edit' = s.path_edit
    /\ current_path' = s.current_path
    /\ reserved' = s.reserved
    /\ items' = s.items
    /\ last_folder_list' = s.last_folder_list
    /\ watched_path' = s.watched_path
    /\ signals' = s.signals
    /\ timers' = s.timers
    /\ sort_paused' = s.sort_paused
    /\ state' = s.state
    /\ file' = s.file
    /\ notes' = s.notes
    /\ notes_list' = s.notes_list
    /\ item_data' = item_data
    /\ phase' = s.phase
    /\ platform' = platform
    /\ faulty' = faulty
    /\ fault_kind' = fault_kind
    /\ broken' = broken

Texts(its) == {its[i].text : i \in DOMAIN its}
ReservedTexts(its) == {its[i].text : i \in {k \in DOMAIN its : its[k].res}}

\* what the claims need of the state a handler started in
Pre(s) == [items |-> s.items, reserved |-> s.reserved, stored |-> s.state.reserved,
           disk |-> s.disk, current_path |-> s.current_path,
           path_edit |-> s.path_edit, notes |-> s.notes, notes_list |-> s.notes_list]

\* what the claims need of the handler before the last one
Summary(l) == [op |-> l.op, wok |-> l.env.wok,
               clean |-> /\ l.log.ran
                         /\ l.log.reports = <<>>
                         /\ l.env.snapOk /\ l.env.scanOk
                         /\ Texts(l.pre.items) = Dir(l.pre, l.pre.path_edit),
               res |-> ReservedTexts(l.pre.items)]

NoEnv == [snapOk |-> TRUE, scanOk |-> TRUE, wok |-> TRUE, clobber |-> FALSE, busy |-> {}, kind |-> "busy"]

\* s is the state the handler started in (for a drop, the list as dropped);
\* args is what the user gave the handler
RecordWith(op, s, log, trace, env, args) ==
    /\ last' = [op |-> op, pre |-> Pre(s), log |-> log, trace |-> trace,
                same |-> s.items = items, args |-> args,
                env |-> [snapOk |-> env.snapOk, scanOk |-> env.scanOk, wok |-> env.wok],
                prev |-> Summary(last)]
    /\ dirty' = IF log.refreshed THEN FALSE ELSE dirty

Record(op, s, log, trace, env) == RecordWith(op, s, log, trace, env, <<>>)

\* one more operation of the user or of another process
Tick == steps > 0 /\ steps' = steps - 1

-----------------------------------------------------------------------------
(* Inputs *)

SubsetsUpTo(S, n) == {T \in SUBSET S : Cardinality(T) <= n}

\* the permutations of a set, as sequences
RECURSIVE Perms(_)
Perms(S) ==
    IF S = {} THEN {<<>>}
    ELSE UNION {{<<x>> \o p : p \in Perms(S \ {x})} : x \in S}

\* the environment of a handler call: whether the handler's own listing of the
\* directory and the listing of _refresh_list work, whether writing the state
\* file works, whether a POSIX rename finds its target an empty directory, and
\* the folders of the directory in the path field that raise OSError
Env(snapOk, scanOk, wok, clobber) ==
    [snapOk |-> snapOk, scanOk |-> scanOk, wok |-> wok, clobber |-> clobber,
     busy |-> {n \in Dir(Cur, path_edit) : <<path_edit, n>> \in faulty},
     kind |-> fault_kind]

\* the environment in which everything but the faulty folders works
Works == Env(TRUE, TRUE, TRUE, FALSE)

\* the environment as it is: os.rename replaces an empty directory on POSIX
Environment ==
    Env(broken \notin {"list", "snap"}, broken # "list", broken # "write",
        broken = "snap")

-----------------------------------------------------------------------------
(* Handlers as actions *)

\* "Start sorting" is in the context menu while sort_paused
ResumeSortAct(env) ==
    /\ Tick
    /\ sort_paused
    /\ \E r \in {ResumeSort(Cur, env)} :
          Becomes(r.s) /\ Record("sort", Cur, r.log, <<>>, env)

\* "Pause sorting" is in the context menu while not sort_paused
PauseSortAct ==
    /\ Tick
    /\ ~sort_paused
    /\ Becomes(PauseSort(Cur)) /\ Record("pause", Cur, NoLog, <<>>, NoEnv)

\* the item at row i is dropped at row j (j = i: where it was)
DropAct(i, j, env) ==
    /\ Tick
    /\ \E r \in {OnDrop(Cur, i, j, env)} :
       /\ Becomes(r.s)
       /\ Record(IF sort_paused THEN "drag" ELSE "sort",
                 [Cur EXCEPT !.items = MoveItem(items, i, j)], r.log, <<>>, env)

\* folders: the order in which os.scandir yields the sub-folders
ClearAct(folders, env) ==
    /\ Tick
    /\ \E r \in {ClearPrefixNumber(Cur, folders, env)} :
       Becomes(r.s) /\ Record("clear", Cur, r.log, r.trace, env)

\* text typed or pasted into the path field, Return not pressed
TypePathAct(p) ==
    /\ Tick
    /\ p # path_edit
    /\ Becomes([Cur EXCEPT !.path_edit = p])
    /\ Record("type", Cur, NoLog, <<>>, NoEnv)

\* Return in the path field
EnterPathAct(env) ==
    /\ Tick
    /\ \E r \in {OnPathEntry(Cur, env)} :
       Becomes(r.s) /\ Record("open", Cur, r.log, <<>>, env)

\* "Browse for folder", the dialog returning path
SelectDirectoryAct(path, env) ==
    /\ Tick
    /\ \E r \in {SelectDirectory(Cur, path, env)} :
       Becomes(r.s)
       /\ RecordWith("open", [Cur EXCEPT !.path_edit = path], r.log, <<>>, env, <<path>>)

\* "Mark as reserved": enabled when some selected item is not reserved
MarkAct(sel, env) ==
    /\ Tick
    /\ current_path # NoPath
    /\ sel # {} /\ sel \subseteq Texts(items)
    /\ sel \ ReservedTexts(items) # {}
    /\ Becomes(MarkSelectedAsReserved(Cur, sel, env))
    /\ RecordWith("mark", Cur, NoLog, <<>>, env, <<sel>>)

\* "Remove reserved": enabled when some selected item is reserved
UnmarkAct(sel, env) ==
    /\ Tick
    /\ current_path # NoPath
    /\ sel \subseteq Texts(items)
    /\ sel \cap ReservedTexts(items) # {}
    /\ Becomes(UnmarkSelectedReserved(Cur, sel, env))
    /\ RecordWith("unmark", Cur, NoLog, <<>>, env, <<sel>>)

\* "Delete selected": enabled with a selection; the question answered Yes
DeleteAct(sel, env) ==
    /\ Tick
    /\ sel # {} /\ sel \subseteq Texts(items)
    /\ \E r \in {DeleteSelectedFolders(Cur, sel, env)} :
          Becomes(r.s) /\ Record("delete", Cur, r.log, <<>>, env)

\* "Rename": enabled with one selected item; the dialog returning new_name
RenameAct(old_name, new_name, env) ==
    /\ Tick
    /\ old_name \in Texts(items)
    /\ \E r \in {RenameSelectedFolder(Cur, old_name, new_name, env)} :
          Becomes(r.s)
          /\ RecordWith("rename", Cur, r.log, <<>>, env, <<old_name, new_name>>)

\* the event loop delivers a directoryChanged signal
DirectoryChangedAct(path) ==
    /\ path \in signals
    /\ Becomes(OnDirectoryChanged(Cur, path))
    /\ RecordWith("changed", Cur, NoLog, <<>>, NoEnv, <<path>>)
    /\ UNCHANGED steps

\* the event loop runs a pending singleShot(0) call
TimerAct(path, env) ==
    /\ path \in timers
    /\ \E r \in {TimerFires(Cur, path, env)} :
          Becomes(r.s) /\ RecordWith("timer", Cur, r.log, <<>>, env, <<path>>)
    /\ UNCHANGED steps

-----------------------------------------------------------------------------
(* Other processes working in the directories *)

\* a folder appears in directory p
DoCreate(s, p, name) ==
    [s EXCEPT !.disk[p] = @ \cup {name},
              !.signals = IF s.watched_path = p THEN @ \cup {p} ELSE @]

Outside(s, op) ==
    /\ Tick
    /\ Becomes(s)
    /\ last' = [op |-> op, pre |-> Pre(Cur), log |-> NoLog, trace |-> <<>>,
                same |-> TRUE, args |-> <<>>,
                env |-> [snapOk |-> TRUE, scanOk |-> TRUE, wok |-> TRUE],
                prev |-> Summary(last)]
    /\ dirty' = (dirty \/ Dir(s, current_path) # Dir(Cur, current_path))

ExternalDelete(p, name) ==
    /\ name \in disk[p]
    /\ Outside(DoRemove(Cur, p, name), "outside")

ExternalCreate(p, name) ==
    /\ ~Exists(Cur, p, name)
    /\ Outside(DoCreate(Cur, p, name), "outside")

ExternalRename(p, old, new) ==
    /\ old \in disk[p]
    /\ ~Exists(Cur, p, new)
    /\ Outside(DoRename(Cur, p, old, new), "outside")

-----------------------------------------------------------------------------
(* The sequencing engine on one open directory *)

\* folder names that exercise the prefix, the format and the suffix
EngineNames ==
    { <<"A">>, <<"a">>, <<"7">>,
      <<"0", "1", "_", "A">>,
      <<"1", "_", "2", "_", "A">>,
      <<"0", "1", "_", "A", " ", "(", "1", ")">> }

\* a directory holds no two names that its file system takes for the same
ValidDir(D) == \A x, y \in D : normcase(x) = normcase(y) => x = y

\* _state as _load_last_state returns it for a file with this content
Loaded(path, resP, resQ) ==
    [last_path |-> path,
     reserved |-> [keys |-> {p \in Paths : (IF p = "P" THEN resP ELSE resQ) # {}},
                   map |-> [p \in Paths |-> IF p = "P" THEN resP ELSE resQ]],
     notes |-> <<>>, font_base |-> DEFAULT_FONT_BASE,
     win_width |-> Absent, win_height |-> Absent]

Starts(s, n) ==
    /\ disk = s.disk
    /\ path_edit = s.path_edit
    /\ current_path = s.current_path
    /\ reserved = s.reserved
    /\ items = s.items
    /\ last_folder_list = s.last_folder_list
    /\ watched_path = s.watched_path
    /\ signals = s.signals
    /\ timers = s.timers
    /\ sort_paused = s.sort_paused
    /\ state = s.state
    /\ file = s.file
    /\ notes = s.notes
    /\ notes_list = s.notes_list
    /\ phase = s.phase
    /\ steps = n
    /\ dirty = FALSE
    /\ last = [op |-> "init", pre |-> Pre(s), log |-> NoLog, trace |-> <<>>,
               same |-> TRUE, args |-> <<>>,
               env |-> [snapOk |-> TRUE, scanOk |-> TRUE, wok |-> TRUE],
               prev |-> [op |-> "none", wok |-> TRUE, clean |-> FALSE, res |-> {}]]

\* the application opened on directory P holding D, with R marked reserved and
\* the list dragged into the given order while sorting is paused
SeqInit ==
    /\ platform \in {"posix", "nt"}
    /\ item_data = "object"
    /\ broken = "none"
    /\ \E D \in SubsetsUpTo(EngineNames, MaxDir) \ {{}} :
          /\ ValidDir(D)
          /\ \E F \in SubsetsUpTo(D, MaxBusy) :
                /\ faulty = {<<"P", n>> : n \in F}
                /\ fault_kind \in IF F = {} THEN {"busy"} ELSE {"busy", "other"}
          /\ \E R \in SubsetsUpTo(D, MaxMarks) : \E order \in Perms(D) :
                LET s == Construct(Blank([p \in Paths |-> IF p = "P" THEN D ELSE {}],
                                         Loaded("P", R, {})), NoEnv)
                IN  Starts([s EXCEPT !.items =
                              [i \in 1..Len(order) |->
                                  [text |-> order[i], res |-> order[i] \in R]]],
                           MaxSteps)

\* the user starts sorting, later drops an item (in place or at the top), or
\* clears the numbering
SeqNext ==
    \/ ResumeSortAct(Works)
    \/ \E i \in DOMAIN items : \E j \in {1, i} : ~sort_paused /\ DropAct(i, j, Works)
    \/ \E folders \in Perms(Dir(Cur, path_edit)) : ClearAct(folders, Works)

SeqSpec == SeqInit /\ [][SeqNext]_vars

-----------------------------------------------------------------------------
(* The application on two directories, with other processes *)

NameA == <<"A">>
NameB == <<"B">>
NameC == <<"C">>

\* names the user types into the rename dialog and other processes create
NewNames == {NameB, NameC}

\* texts of the path field: the two directories and one that is none
PathTexts == Paths \cup {"X"}

\* P holds A and B, Q holds A; the state file may reserve A in either; the
\* application opens P, its last path
Init ==
    /\ platform = "posix"
    /\ item_data = "object"
    /\ broken \in {"none", "list", "snap", "write"}
    /\ fault_kind = "busy"
    /\ faulty \in {{}, {<<"P", NameB>>}}
    /\ \E resP, resQ \in {{}, {NameA}} :
          Starts(Construct(Blank([p \in Paths |-> IF p = "P" THEN {NameA, NameB}
                                                 ELSE {NameA}],
                                 Loaded("P", resP, resQ)), NoEnv),
                 MaxAppSteps)

UserNext ==
    \/ \E p \in PathTexts : TypePathAct(p)
    \/ EnterPathAct(Environment)
    \/ \E path \in Paths : SelectDirectoryAct(path, Environment)
    \/ \E sel \in SUBSET Texts(items) : MarkAct(sel, Environment)
    \/ \E sel \in SUBSET Texts(items) : UnmarkAct(sel, Environment)
    \/ \E sel \in SUBSET Texts(items) : DeleteAct(sel, Environment)
    \/ \E old_name \in Texts(items) : \E new_name \in NewNames :
          RenameAct(old_name, new_name, Environment)
    \/ \E i, j \in DOMAIN items : DropAct(i, j, Environment)
    \/ PauseSortAct
    \/ ResumeSortAct(Environment)
    \/ \E folders \in Perms(Dir(Cur, path_edit)) : ClearAct(folders, Environment)

OutsideNext ==
    \/ \E p \in Paths : \E name \in disk[p] : ExternalDelete(p, name)
    \/ \E p \in Paths : \E name \in NewNames : ExternalCreate(p, name)
    \/ \E p \in Paths : \E old \in disk[p] : \E new \in NewNames :
          ExternalRename(p, old, new)

WatcherNext ==
    \/ \E path \in signals : DirectoryChangedAct(path)
    \/ \E path \in timers : TimerAct(path, Environment)

Next == UserNext \/ OutsideNext \/ WatcherNext

Spec == Init /\ [][Next]_vars

-----------------------------------------------------------------------------
(* The sort of directory_manager.py, and the two sorts on one directory *)

\* sub-folders of the directory in VariantSpec
MaxVariantDir == 3

\* re.sub(r"^\d+_", "", folder_name)
DmBaseName(folder_name) ==
    LET k == LeadDigits(folder_name)
    IN  IF k > 0 /\ k < Len(folder_name) /\ folder_name[k + 1] = "_"
        THEN SubSeq(folder_name, k + 2, Len(folder_name)) ELSE folder_name

\* os.path.exists(new_path) with the directory holding the folders D
DmExists(D, name) == \E n \in D : normcase(n) = normcase(name)

\* the while loop of directory_manager's _confirm_sort
RECURSIVE DmProbe(_, _, _, _, _, _, _)
DmProbe(i, base_name, folder_name, used_names, D, new_name, counter) ==
    IF new_name \in used_names \/ (DmExists(D, new_name) /\ folder_name # new_name)
    THEN DmProbe(i, base_name, folder_name, used_names, D,
                 Suffixed(i, base_name, counter), counter + 1)
    ELSE new_name

\* os.rename(current_path, new_path) when current_path exists
DmRename(D, folder_name, new_name) ==
    IF DmExists(D, folder_name)
    THEN (D \ {n \in D : normcase(n) = normcase(folder_name)}) \cup {new_name}
    ELSE D

\* the for loop of directory_manager's _confirm_sort from the i-th folder on:
\* each name is chosen against the directory as the renames before left it.
\* os.rename is in no try block: for a folder held by another process (busy)
\* it raises OSError, which ends the loop and leaves _confirm_sort
\* The trace holds, for each folder reached, the name chosen for it and the
\* directory as it was when the name was chosen
RECURSIVE DmSortFrom(_, _, _, _, _)
DmSortFrom(D, folders, i, used_names, busy) ==
    IF i > Len(folders) THEN [disk |-> D, raised |-> FALSE, trace |-> <<>>]
    ELSE LET folder_name == folders[i]
             new_name == DmProbe(i, DmBaseName(folder_name), folder_name, used_names, D,
                                 Candidate(i, DmBaseName(folder_name)), 1)
             entry == [old |-> folder_name, new |-> new_name, dir |-> D]
         IN  IF DmExists(D, folder_name) /\ folder_name \in busy /\ new_name # folder_name
             THEN [disk |-> D, raised |-> TRUE, trace |-> <<entry>>]
             ELSE [DmSortFrom(DmRename(D, folder_name, new_name), folders, i + 1,
                              used_names \cup {new_name}, busy)
                     EXCEPT !.trace = <<entry>> \o @]

\* directory_manager's _confirm_sort on the directory D listed as folders, no
\* rename failing: the folders it leaves
DmConfirmSort(D, folders) == DmSortFrom(D, folders, 1, {}, {}).disk

\* directory_manager's _resume_sort, with the directory, path field and list
\* of s: sort_paused = False, then _confirm_sort, whose last statement is
\* _refresh_list(base_path). An OSError of os.rename leaves the slot uncaught
\* (phase "aborted") before the refresh
DmResumeSort(s, env) ==
    LET base == s.path_edit
        r == DmSortFrom(Dir(s, base), [i \in DOMAIN s.items |-> s.items[i].text],
                        1, {}, env.busy)
        s1 == [s EXCEPT !.sort_paused = FALSE,
                        !.disk = IF IsDir(base) THEN [@ EXCEPT ![base] = r.disk] ELSE @]
        folders == Sorted(Dir(s1, base))
    IN  [s |-> IF r.raised THEN [s1 EXCEPT !.phase = "aborted"]
               ELSE [s1 EXCEPT !.items = [i \in 1..Len(folders) |->
                                             [text |-> folders[i], res |-> FALSE]],
                               !.last_folder_list = folders],
         trace |-> r.trace]

\* folder names that differ in their prefix only, and a prefix with no underscore
VariantNames ==
    { <<"A">>, <<"B">>, <<"7", "A">>,
      <<"0", "1", "_", "A">>, <<"0", "2", "_", "A">>, <<"0", "1", "_", "B">> }

\* the application opened on directory P holding D, nothing reserved, the
\* first folder of the list held by another process or none, the list dragged
\* into the given order
VariantInit ==
    /\ platform \in {"posix", "nt"}
    /\ item_data = "object"
    /\ broken = "none"
    /\ fault_kind = "busy"
    /\ \E D \in SubsetsUpTo(VariantNames, MaxVariantDir) \ {{}} : \E order \in Perms(D) :
          /\ faulty \in {{}, {<<"P", order[1]>>}}
          /\ Starts([Construct(Blank([p \in Paths |-> IF p = "P" THEN D ELSE {}],
                                      Loaded("P", {}, {})), NoEnv)
                        EXCEPT !.items =
                          [i \in 1..Len(order) |-> [text |-> order[i], res |-> FALSE]]],
                    1)

\* "Start sorting" in directory_manager
DmResumeSortAct(env) ==
    /\ Tick
    /\ sort_paused
    /\ \E r \in {DmResumeSort(Cur, env)} :
          Becomes(r.s) /\ Record("dmsort", Cur, NoLog, r.trace, env)

\* "Start sorting" in either application
VariantNext ==
    \/ ResumeSortAct(Works)
    \/ DmResumeSortAct(Works)

VariantSpec == VariantInit /\ [][VariantNext]_vars

-----------------------------------------------------------------------------
(* Sorting while another process deletes folders *)

\* operations of the user and of the other process in RaceSpec
MaxRaceSteps == 3

\* a folder, the name the sort gives it, and one more
RaceNames == { <<"A">>, <<"0", "1", "_", "A">>, <<"B">> }

\* the application opened on directory P holding D with R reserved; listing
\* the directory in _confirm_sort works or raises OSError
RaceInit ==
    /\ platform = "posix"
    /\ item_data = "object"
    /\ broken \in {"none", "snap"}
    /\ faulty = {}
    /\ fault_kind = "busy"
    /\ \E D \in SUBSET RaceNames \ {{}} : \E R \in SubsetsUpTo(D, MaxMarks) :
          Starts(Construct(Blank([p \in Paths |-> IF p = "P" THEN D ELSE {}],
                                 Loaded("P", R, {})), NoEnv),
                 MaxRaceSteps)

\* another process deletes a folder; the user starts sorting, drops an item,
\* pauses sorting or clears the numbering; the watcher's notification and the refresh it
\* queues run when the event loop gets to them
RaceNext ==
    \/ \E name \in disk["P"] : ExternalDelete("P", name)
    \/ ResumeSortAct(Environment)
    \/ \E i, j \in DOMAIN items : DropAct(i, j, Environment)
    \/ PauseSortAct
    \/ \E folders \in Perms(Dir(Cur, path_edit)) : ClearAct(folders, Environment)
    \/ \E path \in signals : DirectoryChangedAct(path)
    \/ \E path \in timers : TimerAct(path, Environment)

RaceSpec == RaceInit /\ [][RaceNext]_vars

-----------------------------------------------------------------------------
(* The notes and the state file over runs of the application *)

\* operations of the user in SessionSpec
MaxSessionSteps == 3
\* readings of the clock, in minutes
MaxClock == 2

\* the environment in which writing the state file works or fails
Writes(wok) == Env(TRUE, TRUE, wok, FALSE)

\* FileManagerApp() in main()
StartAct(now) ==
    /\ Tick
    /\ phase = "off"
    /\ Becomes(StartApp(Cur, now, Works))
    /\ RecordWith("start", Cur, NoLog, <<>>, Works, <<now>>)

\* the window is closed at the given size
CloseAct(width, height, env) ==
    /\ Tick
    /\ phase = "up"
    /\ Becomes(CloseEvent(Cur, width, height, env))
    /\ RecordWith("close", Cur, NoLog, <<>>, env, <<width, height>>)

\* Return in the note field holding input
AddNoteAct(input, now, env) ==
    /\ Tick
    /\ phase = "up"
    /\ Becomes(AddNote(Cur, input, now, env))
    /\ RecordWith("add", Cur, NoLog, <<>>, env, <<input, now>>)

\* double click on a row of the notes
ToggleCompletionAct(row, env) ==
    /\ Tick
    /\ phase = "up" /\ row \in DOMAIN notes_list
    /\ Becomes(ToggleNoteCompletion(Cur, row, env))
    /\ RecordWith("complete", Cur, NoLog, <<>>, env, <<row>>)

\* "Idea" or "To-do" in the context menu of a row
SetCategoryAct(row, category, env) ==
    /\ Tick
    /\ phase = "up" /\ row \in DOMAIN notes_list
    /\ Becomes(SetNoteCategory(Cur, row, category, env))
    /\ RecordWith("category", Cur, NoLog, <<>>, env, <<row, category>>)

\* "Pin" or "Unpin" in the context menu of a row
TogglePinAct(row, env) ==
    /\ Tick
    /\ phase = "up" /\ row \in DOMAIN notes_list
    /\ Becomes(ToggleNotePin(Cur, row, env))
    /\ RecordWith("pin", Cur, NoLog, <<>>, env, <<row>>)

\* triple click on a row
TripleClickAct(row, env) ==
    /\ Tick
    /\ phase = "up" /\ row \in DOMAIN notes_list
    /\ Becomes(HandleNoteTripleClick(Cur, row, env))
    /\ RecordWith("remove", Cur, NoLog, <<>>, env, <<row>>)

\* a note as the file may hold it
RawNote(content, timestamp, category, completed, pinned) ==
    Obj([content |-> JStr(content), timestamp |-> JStr(timestamp),
         category |-> JWord(category), completed |-> JBool(completed),
         pinned |-> JBool(pinned)])

\* values of the "notes" key: well-formed notes, the plain strings of earlier
\* versions, and entries that are not notes
RawNotes ==
    { JList(<<>>),
      JList(<<RawNote(<<"A">>, <<"0", "1">>, "todo", FALSE, TRUE),
              RawNote(<<"B">>, <<"0", "2">>, "idea", FALSE, FALSE)>>),
      JList(<<RawNote(<<"A">>, <<"0", "2">>, "idea", TRUE, FALSE),
              RawNote(<<"B">>, <<"0", "1">>, "idea", FALSE, FALSE)>>),
      JList(<<JStr(<<" ", "A", " ">>), JInt(3), JStr(<<" ">>)>>),
      JList(<<RawNote(<<" ">>, <<"0", "1">>, "idea", FALSE, FALSE),
              RawNote(<<"A", " ">>, <<>>, "done", TRUE, FALSE)>>),
      JList(<<Obj([content |-> JInt(7), completed |-> JInt(1)])>>),
      JWord("none"), JNull }

\* values of the "reserved" key
RawReserved ==
    { Obj(<<>>),
      Obj([p \in {"P"} |-> JList(<<JStr(NameA)>>)]),
      Obj([p \in {"P"} |-> JList(<<JStr(NameA), JInt(1), JStr(NameC)>>)]),
      Obj([p \in {"P", "Q"} |-> IF p = "P" THEN JStr(NameA) ELSE JList(<<JStr(NameA)>>)]),
      JList(<<JStr(NameA)>>), JNull }

\* values of the "last_path" key
RawLastPath == { JWord("P"), JWord("X"), JWord(""), JInt(5), JNull }

\* values of the "font_base" key
RawFont == { JInt(30), JInt(10), JInt(99), JStr(<<"4", "0">>), JStr(<<"A">>),
             JNull, JList(<<>>), JInf }

\* values of the "win_width" key
RawWidth == { JInt(800), JInt(0), JStr(<<"8", "0">>), JWord("wide"), JNull, JList(<<>>) }

\* a file the application wrote
GoodFile(last_path, res, raw_notes) ==
    Obj([k \in {"last_path", "reserved", "notes", "font_base", "win_width", "win_height"} |->
           CASE k = "last_path" -> last_path
             [] k = "reserved" -> res
             [] k = "notes" -> raw_notes
             [] k = "font_base" -> JInt(DEFAULT_FONT_BASE)
             [] k = "win_width" -> JInt(800)
             [] OTHER -> JInt(560)])

\* f with the value of one key replaced
WithKey(f, key, value) == Obj([k \in f.keys \cup {key} |-> IF k = key THEN value ELSE f.get[k]])

\* f without one key
WithoutKey(f, key) == Obj([k \in f.keys \ {key} |-> f.get[k]])

\* contents of last_state.json: no file, text that is not JSON, JSON that is
\* no object, and objects that differ in one key from a file the application
\* wrote
RawFiles ==
    LET good == GoodFile(JWord("P"), Obj([p \in {"P"} |-> JList(<<JStr(NameA)>>)]),
                         JList(<<RawNote(<<"A">>, <<"0", "1">>, "todo", FALSE, TRUE)>>))
    IN  {[exists |-> FALSE, data |-> JNull]}
        \cup {[exists |-> TRUE, data |-> d] : d \in
                {JBad, JNull, JList(<<>>), JInt(1), Obj(<<>>)}
                \cup {WithKey(good, "notes", v) : v \in RawNotes}
                \cup {WithKey(good, "reserved", v) : v \in RawReserved}
                \cup {WithKey(good, "last_path", v) : v \in RawLastPath}
                \cup {WithKey(good, "font_base", v) : v \in RawFont}
                \cup {WithKey(good, "win_width", v) : v \in RawWidth}
                \cup {WithKey(good, "win_height", v) : v \in RawWidth}
                \cup {WithoutKey(good, k) : k \in good.keys}}

\* texts of the note field
NoteInputs == { <<>>, <<" ">>, <<"A">>, <<" ", "B", " ">> }

\* the application is not running; P holds A and B, Q holds A
SessionInit ==
    /\ platform = "posix"
    /\ item_data \in {"object", "copy"}
    /\ broken = "none"
    /\ faulty = {}
    /\ fault_kind = "busy"
    /\ \E f \in RawFiles :
          Starts([Blank([p \in Paths |-> IF p = "P" THEN {NameA, NameB} ELSE {NameA}],
                        DefaultState)
                  EXCEPT !.file = f, !.phase = "off"], MaxSessionSteps)

SessionNext ==
    \/ \E now \in 1..MaxClock : StartAct(now)
    \/ \E wok \in BOOLEAN : CloseAct(800, 560, Writes(wok))
    \/ \E input \in NoteInputs : \E now \in 1..MaxClock : \E wok \in BOOLEAN :
          AddNoteAct(input, now, Writes(wok))
    \/ \E row \in DOMAIN notes_list : \E wok \in BOOLEAN :
          ToggleCompletionAct(row, Writes(wok))
    \/ \E row \in DOMAIN notes_list : \E category \in {"idea", "todo"} : \E wok \in BOOLEAN :
          SetCategoryAct(row, category, Writes(wok))
    \/ \E row \in DOMAIN notes_list : \E wok \in BOOLEAN : TogglePinAct(row, Writes(wok))
    \/ \E row \in DOMAIN notes_list : \E wok \in BOOLEAN : TripleClickAct(row, Writes(wok))
    \/ \E sel \in SUBSET Texts(items) : \E wok \in BOOLEAN :
          phase = "up" /\ MarkAct(sel, Writes(wok))
    \/ \E sel \in SUBSET Texts(items) : \E wok \in BOOLEAN :
          phase = "up" /\ UnmarkAct(sel, Writes(wok))
    \/ \E path \in Paths : \E wok \in BOOLEAN :
          phase = "up" /\ SelectDirectoryAct(path, Writes(wok))

SessionSpec == SessionInit /\ [][SessionNext]_vars

-----------------------------------------------------------------------------
(* Vocabulary of the claims *)

\* the directory a handler worked in, before and after it
DirBefore == Dir(last.pre, last.pre.path_edit)
DirAfter == Dir(Cur, last.pre.path_edit)

\* the handler was a sort that got past its directory check
SortDone == last.op = "sort" /\ last.log.ran

\* the list the sort walked: the items in the user's order
SortItems == last.pre.items

\* the list showed exactly the sub-folders of the directory
Listed == Texts(SortItems) = DirBefore

\* a sort of a listed directory in which the listing worked and no rename
\* raised an error
CleanSort ==
    SortDone /\ Listed /\ last.env.snapOk /\ last.env.scanOk /\ last.log.reports = <<>>

NotRes(e) == ~e.res
NonReserved(its) == SelectSeq(its, NotRes)

\* the name an entry ended with, from the renames performed
FinalName(text) ==
    IF \E k \in DOMAIN last.log.performed : last.log.performed[k][1] = text
    THEN last.log.performed[CHOOSE k \in DOMAIN last.log.performed :
                               last.log.performed[k][1] = text][2]
    ELSE text

\* the name the plan gives an entry
PlannedFinal(e) ==
    IF \E k \in DOMAIN last.log.plan : last.log.plan[k][1] = e.text
    THEN last.log.plan[CHOOSE k \in DOMAIN last.log.plan :
                          last.log.plan[k][1] = e.text][2]
    ELSE e.text

TwoDigits(k) == <<DigitChars[(k \div 10) + 1], DigitChars[(k % 10) + 1]>>

IsPrefixOf(p, n) == Len(p) <= Len(n) /\ SubSeq(n, 1, Len(p)) = p

\* "NN_base" or "NN_base (n)"
Sequenced(name, k, base) ==
    \/ name = TwoDigits(k) \o <<"_">> \o base
    \/ \E n \in 1..9 :
          name = TwoDigits(k) \o <<"_">> \o base \o <<" ", "(", DigitChars[n + 1], ")">>

-----------------------------------------------------------------------------
(* C1: after a sort of a listed directory in which every rename succeeded,  *)
(* the k-th non-reserved entry of the user's order is on disk under the     *)
(* name "kk_" followed by its stripped base name (with a " (n)" suffix when *)
(* the name was taken), so the prefixes run 01..(N-R) in the given order.   *)
C1_SequencePrefixes ==
    CleanSort =>
        LET nr == NonReserved(SortItems) IN
        \A k \in DOMAIN nr :
            /\ FinalName(nr[k].text) \in DirAfter
            /\ Sequenced(FinalName(nr[k].text), k, BaseName(nr[k].text))

C1_Witness ==
    /\ CleanSort
    /\ Len(SortItems) = 3
    /\ SortItems[1].res
    /\ Len(last.log.performed) = 2
    /\ \E k \in 1..2 : Len(last.log.performed[k][2]) > 3 + Len(BaseName(last.log.performed[k][1]))

C3_ReservedUntouched ==
    SortDone =>
        LET nr == NonReserved(SortItems) IN
        /\ \A i \in DOMAIN SortItems :
              SortItems[i].res =>
                 /\ \A k \in DOMAIN last.log.attempted :
                       last.log.attempted[k][1] # SortItems[i].text
                 /\ SortItems[i].text \in DirBefore => SortItems[i].text \in DirAfter
        /\ Len(last.log.plan) = Len(nr)
        /\ \A k \in DOMAIN nr :
              /\ last.log.plan[k][1] = nr[k].text
              /\ IsPrefixOf(TwoDigits(k) \o <<"_">>, last.log.plan[k][2])

\* a reserved entry ahead of two renamed ones, which get 01 and 02
C3_Witness ==
    /\ CleanSort
    /\ Len(SortItems) = 3
    /\ SortItems[1].res
    /\ Len(last.log.performed) = 2
    /\ IsPrefixOf(<<"0", "1", "_">>, last.log.performed[1][2])
    /\ IsPrefixOf(<<"0", "2", "_">>, last.log.performed[2][2])

(* C4: a second sort directly after a sort in which every rename succeeded, *)
(* with the same reserved entries, attempts no rename: every entry of its   *)
(* plan keeps its current name.                                             *)
C4_SortIdempotent ==
    (/\ last.op = "sort" /\ last.log.ran /\ last.same
     /\ last.prev.op = "sort" /\ last.prev.clean
     /\ ReservedTexts(last.pre.items) = last.prev.res) =>
        /\ last.log.attempted = <<>>
        /\ \A k \in DOMAIN last.log.plan : last.log.plan[k][1] = last.log.plan[k][2]
        /\ DirAfter = DirBefore

\* the second pass over two sequenced folders, one of them with a suffix,
\* and a reserved one
C4_Witness ==
    /\ last.op = "sort" /\ last.log.ran /\ last.same
    /\ last.prev.op = "sort" /\ last.prev.clean
    /\ ReservedTexts(last.pre.items) = last.prev.res
    /\ last.prev.res # {}
    /\ Len(last.log.plan) = 2
    /\ \E k \in DOMAIN last.log.plan : Len(last.log.plan[k][2]) > 4

(* C5: a second clearing of the prefixes directly after a first one in      *)
(* which no rename failed performs no rename.                               *)
C5_ClearIdempotent ==
    (/\ last.op = "clear"
     /\ last.prev.op = "clear" /\ last.prev.clean
     /\ last.log.reports = <<>>) =>
        /\ last.log.performed = <<>>
        /\ DirAfter = DirBefore

(* C6: when no rename raises an error, clearing renames a folder to its     *)
(* name without the leading digits-and-underscore prefix if and only if it  *)
(* is not reserved, the stripped name is non-empty, differs from the name   *)
(* and equals (case-normalized) no other name in the directory at that      *)
(* moment; every other folder keeps its name.                               *)
C6_ClearDecision ==
    (last.op = "clear" /\ last.log.ran /\ last.log.reports = <<>>) =>
        /\ {last.trace[i].old : i \in DOMAIN last.trace} = DirBefore
        /\ Len(last.trace) = Cardinality(DirBefore)
        /\ \A i \in DOMAIN last.trace :
              LET e == last.trace[i]
                  dirNext == IF i < Len(last.trace) THEN last.trace[i + 1].dir
                             ELSE DirAfter
              IN  /\ e.renamed <=>
                        /\ e.old \notin last.pre.reserved
                        /\ StripPrefix(e.old) # <<>>
                        /\ StripPrefix(e.old) # e.old
                        /\ \A o \in e.dir \ {e.old} :
                              normcase(o) # normcase(StripPrefix(e.old))
                  /\ dirNext = IF e.renamed
                               THEN (e.dir \ {e.old}) \cup {StripPrefix(e.old)}
                               ELSE e.dir

\* one folder renamed, one left because its stripped name is taken, one left
\* because it is reserved
C6_Witness ==
    /\ last.op = "clear" /\ last.log.ran /\ last.log.reports = <<>>
    /\ \E i, j \in DOMAIN last.trace :
          /\ last.trace[i].renamed
          /\ ~last.trace[j].renamed
          /\ StripPrefix(last.trace[j].old) \in last.trace[j].dir \ {last.trace[j].old}
    /\ \E i \in DOMAIN last.trace :
          /\ last.trace[i].old \in last.pre.reserved
          /\ StripPrefix(last.trace[i].old) # last.trace[i].old

(* C7: a rename that raises an OS error does not abort the sort: every plan *)
(* entry that is not a no-op is attempted with its planned name, the        *)
(* renames that succeeded stay, and the listing is refreshed at the end.    *)
C7_FailureContinues ==
    (SortDone /\ Listed /\ last.env.snapOk /\ last.env.scanOk) =>
        LET todo == SelectSeq(last.log.plan, LAMBDA pe : normcase(pe[1]) # normcase(pe[2]))
            failed == {last.log.reports[k][2] : k \in DOMAIN last.log.reports}
        IN  /\ last.log.attempted = todo
            /\ \A k \in DOMAIN todo :
                  IF todo[k][1] \in failed
                  THEN todo[k][1] \in DirAfter
                  ELSE todo[k][2] \in DirAfter /\ todo[k][1] \notin DirAfter
            /\ last.log.refreshed
            /\ Range(last_folder_list) = DirAfter

\* the first rename of the batch failed and a later one was performed
C7_Witness ==
    /\ SortDone /\ Listed
    /\ Len(last.log.attempted) >= 2
    /\ Len(last.log.reports) = 1
    /\ last.log.reports[1][2] = last.log.attempted[1][1]
    /\ Len(last.log.performed) >= 1

-----------------------------------------------------------------------------
(* C8: the active reserved set names only folders of the listing, and       *)
(* whenever no change from outside is waiting for a refresh (after every    *)
(* handler of the user, and again after the refresh that follows a change   *)
(* from outside) it is a subset of the folders present in the open          *)
(* directory.                                                               *)
C8_ReservedSubset ==
    /\ reserved \subseteq Range(last_folder_list)
    /\ reserved \subseteq Texts(items)
    /\ ~dirty => reserved \subseteq Dir(Cur, current_path)

\* the refresh after a reserved folder was deleted from outside, another
\* reserved folder remaining
C8_Witness ==
    /\ last.op = "timer" /\ last.log.full
    /\ ~(last.pre.reserved \subseteq Dir(last.pre, last.pre.current_path))
    /\ reserved # {}
    /\ ~dirty

(* C9: a refresh leaves in the active reserved set and in the persisted     *)
(* reserved entry of the directory no name that is absent from the          *)
(* directory; when the listing works both become the stored set intersected *)
(* with the folders present, and the state is saved by the refresh exactly  *)
(* when that intersection differs from the stored set.                      *)
C9_RefreshPrunes ==
    last.log.refreshed =>
        LET stored0 == last.log.stored
            present == Dir(Cur, current_path)
        IN  /\ \A x \in stored0 \ present :
                  /\ x \notin reserved
                  /\ x \notin StoredReserved(state, current_path)
                  /\ last.env.wok => x \notin FileReserved(file, current_path)
            /\ last.env.scanOk =>
                  /\ reserved = stored0 \cap present
                  /\ StoredReserved(state, current_path) = stored0 \cap present
                  /\ last.log.saved <=> (stored0 \cap present # stored0)
                  /\ ~last.log.saved /\ last.op = "timer" =>
                        state.reserved = last.pre.stored

\* the deferred refresh after a reserved folder was deleted from outside: no
\* handler of the user ran in between
C9_Witness ==
    /\ last.op = "timer" /\ last.log.full /\ last.log.saved
    /\ last.env.scanOk /\ last.env.wok
    /\ last.prev.op = "changed"
    /\ last.log.stored \ Dir(Cur, current_path) # {}
    /\ last.log.stored \cap Dir(Cur, current_path) # {}

(* C10: after a successful manual rename of a reserved folder, in an        *)
(* environment in which nothing fails, the new name is in the active and    *)
(* in the persisted reserved set and the old name is in neither; a rename   *)
(* that did not take place leaves both sets as they were.                   *)
C10_RenameTransfers ==
    (last.op = "rename" /\ broken = "none") =>
        /\ \A k \in DOMAIN last.log.performed :
              LET old_name == last.log.performed[k][1]
                  new_name == last.log.performed[k][2]
              IN  old_name \in last.pre.reserved =>
                     /\ new_name \in reserved
                     /\ old_name \notin reserved
                     /\ new_name \in StoredReserved(state, current_path)
                     /\ old_name \notin StoredReserved(state, current_path)
        /\ last.log.performed = <<>> =>
              /\ reserved = last.pre.reserved
              /\ state.reserved = last.pre.stored

\* the last handler wrote the state file, and the write worked
Wrote ==
    /\ phase = "up" /\ last.env.wok
    /\ \/ last.op \in {"complete", "category", "pin", "remove", "mark", "unmark"}
       \/ last.op = "add" /\ Strip(last.args[1]) # <<>>

\* _notes as _load_last_state and _load_notes_from_state rebuild it from the file
ReloadedNotes ==
    LoadNotesFromState([Cur EXCEPT !.state = LoadLastState(file, 1).state], 1).notes

\* the reserved dict as _load_last_state rebuilds it from the file
ReloadedReserved == LoadLastState(file, 1).state.reserved

(* C11: once _write_state has written the state, loading the file gives back *)
(* the reservation map (the same paths with the same sets of names) and the  *)
(* notes list: the same notes in the same order, each with its content,      *)
(* timestamp, category, completed flag and pinned flag.                      *)
C11_RoundTrip ==
    Wrote =>
        /\ ReloadedNotes = notes
        /\ ReloadedReserved.keys = state.reserved.keys
        /\ \A p \in Paths :
              StoredReserved([reserved |-> ReloadedReserved], p)
                 = StoredReserved(state, p)

\* a note record as the loaders build it
WellFormedNote(n) ==
    /\ n.content # <<>> /\ Strip(n.content) = n.content
    /\ n.timestamp # <<>> /\ Strip(n.timestamp) = n.timestamp
    /\ n.category \in {"idea", "todo"}
    /\ n.completed \in BOOLEAN

(* C12: whatever last_state.json holds (no file, text that is not JSON, JSON *)
(* that is no object, an object with a key missing or of the wrong type:     *)
(* last_path, reserved, notes, font_base, win_width, win_height), the start  *)
(* of the application completes, with last_path a path text, a reserved map  *)
(* of sets of names, a font size within its limits and well-formed notes.    *)
C12_LoadCompletes ==
    last.op = "start" =>
        /\ phase = "up"
        /\ state.last_path \in PathTexts \cup {NoPath}
        /\ state.reserved.keys \subseteq Paths
        /\ \A p \in Paths : state.reserved.map[p] \subseteq {NameA, NameB, NameC}
        /\ state.font_base \in MIN_FONT_BASE..MAX_FONT_BASE
        /\ \A i \in DOMAIN state.notes : WellFormedNote(state.notes[i])
        /\ \A i \in DOMAIN notes : WellFormedNote(notes[i]) /\ notes[i].pinned \in BOOLEAN

\* the open path, the list and the reserved set are as the last handler found them
ListUntouched ==
    /\ current_path = last.pre.current_path
    /\ items = last.pre.items
    /\ reserved = last.pre.reserved

(* C13: the handler of a directoryChanged notification for path P refreshes  *)
(* nothing itself; the refresh it defers is skipped when P is no longer the  *)
(* open path by the time it runs, so that it never sets the open path, the   *)
(* list or the reserved set back to a directory the user has left.           *)
C13_StaleRefreshSkipped ==
    /\ last.op = "changed" => ListUntouched
    /\ last.op = "timer" /\ last.args[1] # last.pre.current_path => ListUntouched

\* this step is the refresh of path p, alone (the deferred call) or at the end
\* of opening p, and p is the open path and lists what the last refresh listed
SameListing(p) ==
    /\ p = current_path
    /\ ScanFolders(Cur, p, Environment) = last_folder_list
    /\ \/ p \in timers /\ timers' = timers \ {p} /\ last'.op = "timer" /\ last'.args = <<p>>
       \/ steps' # steps /\ last'.op = "open" /\ last'.pre.path_edit = p /\ IsDir(p)

(* C14: a refresh of the open path that lists exactly the names of the last  *)
(* refresh changes nothing: the reserved set, the reserved entries in memory *)
(* and in the file, the watched path and the order of the list stay as they  *)
(* are, and the refresh writes no state (the file changes only by the write  *)
(* of the last path that opening a path makes before its refresh).           *)
C14_RefreshShortCircuit ==
    [][\A p \in Paths : SameListing(p) =>
          /\ UNCHANGED <<reserved, items, watched_path, current_path, last_folder_list>>
          /\ state' = [state EXCEPT !.last_path = IF last'.op = "timer" THEN @ ELSE p]
          /\ \/ file' = file
             \/ last'.op = "open" /\ file' = [exists |-> TRUE, data |-> DumpState(state')]]_vars

\* the deferred refresh found the listing unchanged while the list was in an
\* order the user had dragged it into and a folder was reserved
C14_Witness ==
    /\ last.op = "timer" /\ last.args = <<current_path>>
    /\ last.log.refreshed /\ ~last.log.full
    /\ reserved # {}
    /\ [i \in DOMAIN items |-> items[i].text] # last_folder_list
    /\ Texts(items) = Range(last_folder_list)

\* this step is Return in the note field
AddStep == steps' # steps /\ last'.op = "add"

\* the text and the clock reading of the last add
AddInput == last.args[1]
AddNow == last.args[2]

\* the note that _add_note builds from the text and the clock reading
NewNote(input, now) ==
    [content |-> Strip(input), timestamp |-> Strftime(now), category |-> "idea",
     completed |-> FALSE, pinned |-> FALSE]

\* the row of the list that shows the note at position i of _notes
RowOf(rows, i) == CHOOSE r \in DOMAIN rows : rows[r] = i

\* the notes an add found are all there after it, one position further, and
\* the new note is the first of _notes and is shown
Added(old, new, rows, input, now) ==
    /\ Len(new) = Len(old) + 1
    /\ new[1] = NewNote(input, now)
    /\ \A i \in DOMAIN old : new[i + 1] = old[i]
    /\ \E r \in DOMAIN rows : rows[r] = 1

(* C15: adding a note trims the text; a text that is empty after trimming    *)
(* changes neither the notes nor the state in memory or in the file;         *)
(* otherwise the new note, not completed and not pinned, is shown ahead of   *)
(* every active note that was there.                                         *)
C15_NewNoteFirst ==
    [][AddStep =>
         IF Strip(last'.args[1]) = <<>>
         THEN UNCHANGED <<notes, notes_list, state, file>>
         ELSE /\ Added(notes, notes', notes_list', last'.args[1], last'.args[2])
              /\ \A i \in DOMAIN notes : ~notes[i].completed =>
                    RowOf(notes_list', 1) < RowOf(notes_list', i + 1)]_vars

(* C15, amended: ... otherwise the new note, not completed and not pinned,   *)
(* is shown ahead of every active note that was there and is neither pinned  *)
(* nor stamped later than the new note.                                      *)
C15_NewNoteFirstUnpinned ==
    [][AddStep =>
         IF Strip(last'.args[1]) = <<>>
         THEN UNCHANGED <<notes, notes_list, state, file>>
         ELSE /\ Added(notes, notes', notes_list', last'.args[1], last'.args[2])
              /\ \A i \in DOMAIN notes :
                    /\ ~notes[i].completed /\ ~notes[i].pinned
                    /\ ~NameLess(Strftime(last'.args[2]), notes[i].timestamp)
                    => RowOf(notes_list', 1) < RowOf(notes_list', i + 1)]_vars

\* a note was added with surrounding blanks to a list with an active pinned
\* note and an active note that is not pinned: the new note is shown between
C15_Witness ==
    /\ last.op = "add" /\ Strip(AddInput) # <<>> /\ Strip(AddInput) # AddInput
    /\ Len(notes) = Len(last.pre.notes) + 1
    /\ \E i, j \in DOMAIN last.pre.notes :
          /\ ~last.pre.notes[i].completed /\ last.pre.notes[i].pinned
          /\ ~last.pre.notes[j].completed /\ ~last.pre.notes[j].pinned
          /\ RowOf(notes_list, i + 1) < RowOf(notes_list, 1)
          /\ RowOf(notes_list, 1) < RowOf(notes_list, j + 1)

\* the note shown in a row
Shown(r) == notes[notes_list[r]]

(* C16: while the application runs, after any sequence of adding notes,      *)
(* toggling completion, setting the category, toggling the pin and removing  *)
(* notes, the list shows every note once, the active notes before the        *)
(* completed ones, within each group the pinned before the others, and among *)
(* notes of one group and one pin state the later timestamp first.           *)
C16_RenderOrder ==
    phase = "up" =>
        /\ Len(notes_list) = Len(notes)
        /\ {notes_list[r] : r \in DOMAIN notes_list} = DOMAIN notes
        /\ \A r, q \in DOMAIN notes_list : r < q =>
              /\ Shown(r).completed => Shown(q).completed
              /\ Shown(r).completed = Shown(q).completed =>
                    /\ Shown(q).pinned => Shown(r).pinned
                    /\ Shown(r).pinned = Shown(q).pinned =>
                          ~NameLess(Shown(r).timestamp, Shown(q).timestamp)

\* after a pin was toggled the list shows a pinned active note, an active
\* note that is not pinned and stamped later, and a completed note
C16_Witness ==
    /\ phase = "up" /\ last.op = "pin"
    /\ \E r, q, c \in DOMAIN notes_list :
          /\ r < q /\ q < c
          /\ ~Shown(r).completed /\ Shown(r).pinned
          /\ ~Shown(q).completed /\ ~Shown(q).pinned
          /\ NameLess(Shown(r).timestamp, Shown(q).timestamp)
          /\ Shown(c).completed

\* this step is "Rename" with the dialog accepted
RenameStep == steps' # steps /\ last'.op = "rename"

(* C17: a manual rename to a name that differs from the old one and already  *)
(* exists in the directory of the path field is refused: os.rename is not    *)
(* called, the directories, the list and the active reserved set stay as     *)
(* they are, and so does the state in memory and in the file.                *)
C17_RenameRefused ==
    [][RenameStep /\ last'.args[2] # last'.args[1]
                  /\ Exists(Cur, path_edit, last'.args[2])
         => /\ last'.log.attempted = <<>>
            /\ last'.log.reports = <<<<"exists", last'.args[1]>>>>
            /\ ~last'.log.refreshed
            /\ UNCHANGED <<disk, items, reserved, current_path, state, file>>]_vars

\* a reserved folder was to be renamed to the name of another folder
C17_Witness ==
    /\ last.op = "rename"
    /\ last.args[1] \in last.pre.reserved
    /\ last.args[2] # last.args[1]
    /\ last.args[2] \in Dir(last.pre, last.pre.path_edit)
    /\ last.pre.path_edit = last.pre.current_path

\* the handlers of SessionSpec that call _write_state
Writers ==
    {"add", "complete", "category", "pin", "remove", "mark", "unmark", "open", "close"}

\* this step is a handler that calls _write_state
WriteStep ==
    /\ steps' # steps /\ last'.op \in Writers
    /\ last'.op = "add" => Strip(last'.args[1]) # <<>>

\* what the handler of this step makes of the current state when the write works
Handled(op, args) ==
    CASE op = "add" -> AddNote(Cur, args[1], args[2], Writes(TRUE))
      [] op = "complete" -> ToggleNoteCompletion(Cur, args[1], Writes(TRUE))
      [] op = "category" -> SetNoteCategory(Cur, args[1], args[2], Writes(TRUE))
      [] op = "pin" -> ToggleNotePin(Cur, args[1], Writes(TRUE))
      [] op = "remove" -> HandleNoteTripleClick(Cur, args[1], Writes(TRUE))
      [] op = "mark" -> MarkSelectedAsReserved(Cur, args[1], Writes(TRUE))
      [] op = "unmark" -> UnmarkSelectedReserved(Cur, args[1], Writes(TRUE))
      [] op = "open" -> SelectDirectory(Cur, args[1], Writes(TRUE)).s
      [] OTHER -> CloseEvent(Cur, args[1], args[2], Writes(TRUE))

(* C18: a _write_state that fails does not end the application and leaves    *)
(* the state in memory (last path, reserved map, notes) as the handler made  *)
(* it, the same as when the write works; a write that works puts the whole   *)
(* state in memory into the file, whatever failed before.                    *)
C18_WriteFailureHarmless ==
    [][WriteStep =>
         /\ phase' # "aborted"
         /\ state' = Handled(last'.op, last'.args).state
         /\ notes' = Handled(last'.op, last'.args).notes
         /\ reserved' = Handled(last'.op, last'.args).reserved
         /\ last'.env.wok => file' = [exists |-> TRUE, data |-> DumpState(state')]]_vars

\* the pin of a note could not be written; the reservation marked next was
\* written, and the file holds the pin with it
C18_Witness ==
    /\ last.op = "mark" /\ last.env.wok
    /\ last.prev.op = "pin" /\ ~last.prev.wok
    /\ \E i \in DOMAIN notes : notes[i].pinned
    /\ file = [exists |-> TRUE, data |-> DumpState(state)]
    /\ state.notes = notes

(* C19: for every set of folders and every order of the list, with nothing   *)
(* reserved and no rename failing, the sort of file_manager.py leaves the    *)
(* directory with the same folder names as the sort of directory_manager.py  *)
(* run on the same directory and order.                                      *)
C19_SameAsDirectoryManager ==
    CleanSort /\ ReservedTexts(SortItems) = {} /\ last.pre.reserved = {} /\ faulty = {}
        => DirAfter = DmConfirmSort(DirBefore, [i \in DOMAIN SortItems |-> SortItems[i].text])

\* the names selected when "Mark as reserved" or "Remove reserved" was chosen
Selected == last.args[1]

\* the reserved entries of a state: the directories that have one, and the
\* names of each
Entries(st) == [p \in st.reserved.keys |-> st.reserved.map[p]]

(* C20: "Mark as reserved" adds exactly the selected names to the active     *)
(* reserved set and "Remove reserved" removes exactly them; after either the *)
(* stored reserved entry of the open directory is the active set (no entry   *)
(* when the set is empty) and the entries of the other directories are as    *)
(* they were, in _state and, when the write works, in the file.              *)
C20_MarkUnmarkExact ==
    last.op \in {"mark", "unmark"} =>
        /\ reserved = IF last.op = "mark" THEN last.pre.reserved \cup Selected
                      ELSE last.pre.reserved \ Selected
        /\ current_path = last.pre.current_path
        /\ current_path \in state.reserved.keys <=> reserved # {}
        /\ StoredReserved(state, current_path) = reserved
        /\ \A p \in Paths \ {current_path} :
              /\ p \in state.reserved.keys <=> p \in last.pre.stored.keys
              /\ StoredReserved(state, p) = StoredReserved([reserved |-> last.pre.stored], p)
        /\ last.env.wok => Entries(LoadLastState(file, 1).state) = Entries(state)

\* the only reserved folder of the open directory was unmarked while another
\* directory has a reserved entry; a folder was marked next to a reserved one
C20_Witness ==
    /\ last.op \in {"mark", "unmark"} /\ last.env.wok
    /\ \E p \in Paths \ {current_path} : StoredReserved(state, p) # {}
    /\ \/ last.op = "unmark" /\ reserved = {} /\ last.pre.reserved # {}
       \/ last.op = "mark" /\ last.pre.reserved # {} /\ reserved # last.pre.reserved

\* a handler was left by an exception nothing caught
Escaped == phase = "aborted"

(* C21: in both applications an OSError raised by a rename of the sort never *)
(* escapes the handler: after "Start sorting", in file_manager.py or in      *)
(* directory_manager.py, the handler has returned normally.                  *)
C21_NoErrorEscapes == last.op \in {"sort", "dmsort"} => ~Escaped

\* the plan a sort of file_manager.py decides in the state it started in
PlanAtStart == RenamePlan(last.pre, last.pre.path_edit, last.env)

(* C22: the sort decides the target of every entry before it renames         *)
(* anything: in file_manager.py the renames performed are entries of the     *)
(* plan computed on the directory as the sort found it, and in               *)
(* directory_manager.py every target is chosen while the directory is still  *)
(* as the sort found it.                                                     *)
C22_PlanBeforeRename ==
    /\ SortDone =>
          /\ last.log.plan = PlanAtStart
          /\ \A k \in DOMAIN last.log.performed :
                \E j \in DOMAIN PlanAtStart : PlanAtStart[j] = last.log.performed[k]
    /\ last.op = "dmsort" =>
          \A k \in DOMAIN last.trace : last.trace[k].dir = DirBefore

\* the plan entries whose folder was not in the directory when the sort began
Vanished == {k \in DOMAIN last.log.plan : ~Exists(last.pre, last.pre.path_edit, last.log.plan[k][1])}

(* C23: when the folder of a plan entry was deleted by another process after *)
(* the list was taken, the sort of file_manager.py attempts no rename for    *)
(* that entry and reports nothing for it, and every other entry whose        *)
(* planned name differs from its own has the planned name afterwards.        *)
C23_VanishedSkipped ==
    SortDone /\ last.env.snapOk /\ faulty = {} =>
        \A k \in DOMAIN last.log.plan :
            LET old_name == last.log.plan[k][1]
                new_name == last.log.plan[k][2]
            IN  IF k \in Vanished
                THEN /\ \A a \in DOMAIN last.log.attempted : last.log.attempted[a][1] # old_name
                     /\ \A e \in DOMAIN last.log.reports : last.log.reports[e][2] # old_name
                ELSE Vanished # {} /\ normcase(old_name) # normcase(new_name)
                        => new_name \in DirAfter

\* the names the probing can end with for the k-th entry when it stops within
\* bound increments of the counter
Probed(k, base_name, bound) ==
    {Candidate(k, base_name)} \cup {Suffixed(k, base_name, n) : n \in 1..bound}

\* every target of the last sort was found within as many increments as there
\* are folders in the directory and entries before it
ProbesBounded ==
    /\ SortDone =>
          \A k \in DOMAIN last.log.plan :
              last.log.plan[k][2] \in Probed(k, BaseName(last.log.plan[k][1]),
                                             Cardinality(DirBefore) + k)
    /\ last.op = "dmsort" =>
          \A k \in DOMAIN last.trace :
              last.trace[k].new \in Probed(k, DmBaseName(last.trace[k].old),
                                           Cardinality(DirBefore) + k)

\* the last sort got to its final _refresh_list: the list shows the directory
ReachedRefresh ==
    /\ SortDone => last.log.refreshed
    /\ last.op = "dmsort" => ~Escaped /\ Texts(items) = DirAfter

(* C24: the " (n)" probing of either sort stops after finitely many          *)
(* increments for every entry (at most the number of folders plus the        *)
(* entries planned before it), every entry of the list gets a target, and    *)
(* the sort reaches its final refresh.                                       *)
C24_ProbingTerminates ==
    last.op \in {"sort", "dmsort"} =>
        /\ ProbesBounded
        /\ SortDone => Len(last.log.plan) = Len(SortItems)
        /\ ReachedRefresh

\* the application is started and the start completes
StartStep == steps' # steps /\ last'.op = "start" /\ phase' = "up"

\* the "notes" value of the state file, when it is a list
RawNotesOf(f) ==
    IF f.exists /\ f.data.t = "obj" /\ Get(f.data, "notes", JNull).t = "list"
    THEN Get(f.data, "notes", JNull).v ELSE <<>>

\* a plain string that is not blank, or a record whose content is not blank
LegacyString(item) == item.t = "str" /\ Strip(item.s) # <<>>
ContentRecord(item) ==
    item.t = "obj" /\ Strip(PyStr(Get(item, "content", JStr(<<>>)))) # <<>>
Kept(item) == LegacyString(item) \/ ContentRecord(item)

RECURSIVE TargetsFree(_, _)
TargetsFree(D, performed) ==
    IF performed = <<>> THEN TRUE
    ELSE LET old_name == Head(performed)[1]
             new_name == Head(performed)[2]
         IN  /\ \A n \in D \ {old_name} : normcase(n) # normcase(new_name)
             /\ TargetsFree((D \ {old_name}) \cup {new_name}, Tail(performed))

(* C26: no rename performed by a sort or by "Clear numbering" targets a name *)
(* that another folder of the directory has at that moment, and the          *)
(* directory holds as many folders after the operation as before it.         *)
C26_NoOverwrite ==
    last.op \in {"sort", "clear"} /\ last.log.ran =>
        /\ TargetsFree(DirBefore, last.log.performed)
        /\ Cardinality(DirAfter) = Cardinality(DirBefore)

\* the names the last sort gave to folders
SortTargets == {last.log.performed[k][2] : k \in DOMAIN last.log.performed}

(* C27: a folder that the sort has just renamed is not reserved after the    *)
(* refresh the sort ends with: its new name is neither in the reserved set   *)
(* of the open directory, nor stored for it, nor shown as reserved in the    *)
(* list.                                                                     *)
C27_ReservationStaysPut ==
    SortDone /\ last.log.refreshed /\ last.pre.path_edit = current_path =>
        /\ SortTargets \cap reserved = {}
        /\ SortTargets \cap ReservedTexts(items) = {}
        /\ SortTargets \cap StoredReserved(state, current_path) = {}

(* C28: a refresh removes from the persisted reserved set of the directory   *)
(* only names of folders that are absent from it: every name that was stored *)
(* for the directory when the refresh began and is a folder of the directory *)
(* is still stored for it afterwards, also when the listing failed.          *)
C28_RefreshKeepsPresent ==
    last.log.refreshed =>
        \A x \in last.log.stored \cap Dir(Cur, current_path) :
            x \in StoredReserved(state, current_path)

(* C29: a sort or a "Clear numbering" of file_manager.py renames folders of  *)
(* the open directory only: every other directory holds the same folders     *)
(* after the operation as before it, whatever text the path field holds.     *)
C29_RenamesInOpenDirectory ==
    last.op \in {"sort", "clear"} =>
        \A p \in Paths \ {last.pre.current_path} : disk[p] = last.pre.disk[p]

\* an item is dropped: the one handler of the user that leaves sort_paused as
\* it was and is recorded as a drag or a sort
DropStep == steps' # steps /\ last'.op \in {"drag", "sort"} /\ sort_paused' = sort_paused

\* "Start sorting" is chosen
ResumeStep == steps' # steps /\ sort_paused /\ ~sort_paused'

\* the handler ran _confirm_sort once on the list in the given order: it got
\* past the directory check exactly when the path field names a directory,
\* and its plan is the plan of that order
SortedOnce(order) ==
    /\ last'.op = "sort"
    /\ last'.pre.items = order
    /\ last'.log.ran = IsDir(path_edit)
    /\ last'.log.ran => last'.log.plan = RenamePlan([Cur EXCEPT !.items = order],
                                                    path_edit, last'.env)

(* C30: the application starts with sorting paused; a drop while sorting is  *)
(* paused changes no directory and runs no sort; "Start sorting" runs one    *)
(* sort of the list in its current order; and every drop while sorting is    *)
(* on runs one sort of the list in the order the drop left.                  *)
C30_PauseGatesSort ==
    [][/\ last.op = "init" => sort_paused
       /\ DropStep /\ sort_paused =>
             last'.op = "drag" /\ disk' = disk /\ ~last'.log.ran /\ last'.log.performed = <<>>
       /\ ResumeStep => SortedOnce(items)
       /\ DropStep /\ ~sort_paused => SortedOnce(last'.pre.items)]_vars

\* sorting was started, paused again, and then an item was dropped in a new
\* place: no rename
C30_Witness ==
    /\ last.op = "drag" /\ last.prev.op = "pause" /\ sort_paused
    /\ ~last.same
    /\ last.pre.disk = disk

====
